---- MODULE Spec2Model ----
(***************************************************************************)
(* BountyHound Local: the hunt orchestrator (orchestrator/brain.py), the   *)
(* Redis target lock (database/redis_manager.py), the SQLite tables        *)
(* (database/models.py) and the workers the orchestrator calls             *)
(* (workers/recon.py, discovery.py, validator.py, reporter.py,             *)
(* orchestrator/cross_target.py).                                          *)
(*                                                                         *)
(* Every run_hunt invocation is a process with a program counter; the      *)
(* collaborators (CLI scanner, LLM, curl) are nondeterministic inputs.     *)
(* Time is abstract: a lease may run out at any moment it exists, and a    *)
(* timestamp column holds the id of the hunt that wrote it.                *)
(***************************************************************************)
EXTENDS Integers, Sequences, FiniteSets, TLC

\* ------------------------------------------------------------------ bounds
MaxCards == 2              \* rows the hypothesis_cards table may hold
MaxFindings == 2           \* rows the findings table may hold
MaxBatch == 1              \* cards / scan findings returned by one collaborator call
BountyUnit == 50           \* bounties are multiples of this
MaxBountySteps == 4        \* largest bounty, in units
HourUnit == 60             \* clock readings are multiples of this many hours
MaxHourSteps == 5          \* latest clock reading, in units
MaxTotal == 2              \* largest total_findings a registered target starts with
MaxHunts == 2              \* rows of the hunts table when the scheduler is called
MaxExtra == 1              \* ids a batch_validate list may hold beyond the cap
MaxLog == 3                \* length of the pattern logs drawn pattern by pattern
MaxTypes == 16             \* distinct finding types in the longest pattern log

Procs == {"w1", "w2"}              \* run_hunt invocations (Celery tasks)
Domains == {"a.com", "b.com"}      \* registered targets
ReconErrors == {"stderr1", "stderr2"}   \* texts the recon CLI may print on failure

None == "none"

\* ------------------------------------------------- program constants
DefaultPriority == 5       \* targets.priority INTEGER DEFAULT 5
MaxPriority == 10          \* "Manual priority (1-10)"
BountyScale == 1000        \* bounty_avg / 1000
FloorInverse == 10         \* the floor 0.1 of the bounty factor, as 1 / 10
StalenessCap == 10         \* staleness of a target never hunted, and the cap
HoursPerDay == 24          \* hours_since / 24
RateInverse == 5           \* 0.2 a finding, as 1 / 5
PriorityBase == 5          \* priority / 5.0
ScoreDigits == 2           \* round(score, 2)
DefaultConcurrent == 3     \* PriorityScheduler(max_concurrent = 3)
BatchCap == 10             \* finding_ids[:10]
HypothesisCap == 15        \* hypotheses[:15]

VARIABLES
    lock,           \* redis key bhl:lock:<domain>: TRUE while the key exists
    holder,         \* the invocation whose SET created the key (history)
    targets,        \* targets table, keyed by domain (UNIQUE)
    hunts,          \* hunts table, index = autoincrement id
    findings,       \* findings table, index = autoincrement id
    cards,          \* hypothesis_cards table, index = autoincrement id
    patterns,       \* redis list bhl:cross_patterns
    stats,          \* redis counters bhl:stats:*
    pc,             \* position of each run_hunt invocation
    tgt,            \* run_hunt: domain of the target argument
    hunt_id,        \* run_hunt: local hunt_id (0 before HuntDB.create)
    cardsL,         \* run_hunt: cards / second_cards still to iterate
    todo,           \* run_hunt: rest of the list a for loop iterates
    all_findings,   \* run_hunt: local all_findings (finding ids)
    verified,       \* run_hunt: local verified (finding ids)
    verified_count, \* run_hunt: local verified_count
    result,         \* run_hunt: the value returned, or the exception raised
    scan,           \* state of the run_scan task this invocation dispatched
    calls,          \* the collaborator calls each invocation has made, in order
    syncSeen,       \* number of findings read at line 79, -1 before
    outlived,       \* the invocation was still running when its lease ran out
    lastVal         \* <<the answers and the return value of the last validate_finding task>>

vars == <<lock, holder, targets, hunts, findings, cards, patterns, stats, pc, tgt,
          hunt_id, cardsL, todo, all_findings, verified, verified_count,
          result, scan, calls, syncSeen, outlived, lastVal>>

dbVars == <<targets, hunts, findings, cards, patterns, stats>>
locVars == <<tgt, hunt_id, cardsL, todo, all_findings, verified,
             verified_count, syncSeen>>
lockVars == <<lock, holder, outlived>>

\* ------------------------------------------------------------- helpers
\* the ids (indexes) I of rows selected from a table, in id order
Ids(table, I) ==
    SelectSeq([i \in 1..Len(table) |-> i], LAMBDA i : i \in I)

\* n copies of row appended to a table
RECURSIVE AppendN(_, _, _)
AppendN(table, row, n) ==
    IF n = 0 THEN table ELSE AppendN(Append(table, row), row, n - 1)

Min(a, b) == IF a < b THEN a ELSE b

\* ------------------------------------------------- redis_manager.TaskQueue
\* EXISTS key
is_target_locked(d) == lock[d]

\* SET without NX: the key is written whether or not it exists
set_target_lock_overwrite(d) == TRUE

\* the truth value SET key "1" NX EX ttl returns: the key is created only if
\* it is absent
set_target_lock(d) == ~lock[d]

\* the release forgotten: the key is left alone
release_target_lock_noop(d) == lock

\* a release that flips the key: releasing an absent key creates it
release_target_lock_toggle(d) == [lock EXCEPT ![d] = ~lock[d]]

\* DEL key
release_target_lock(d) == [lock EXCEPT ![d] = FALSE]

\* EX ttl: the key carries a time to live, so redis removes it in the end
HasTTL(d) == lock[d]

\* --------------------------------------------------------- models.HuntDB
HuntDB_create(d, kind) ==
    Append(hunts, [target |-> d, hunt_type |-> kind, status |-> "running",
                   phase |-> "recon", error |-> None, checkpoint |-> None,
                   findings_count |-> 0])

HuntDB_checkpoint(table, h, ph) ==
    [table EXCEPT ![h].phase = ph, ![h].checkpoint = ph]

\* --------------------------------------------------------------- Init
Init ==
    /\ lock = [d \in Domains |-> FALSE]
    /\ holder = [d \in Domains |-> None]
    /\ targets = [d \in Domains |->
                    [status |-> "pending", bounty_min |-> 0, bounty_max |-> 0,
                     priority |-> DefaultPriority, last_recon_at |-> 0,
                     last_scan_at |-> 0, last_full_hunt_at |-> 0,
                     total_findings |-> 0]]
    /\ hunts = <<>>
    /\ findings = <<>>
    /\ cards = <<>>
    /\ patterns = <<>>
    /\ stats = [hunts_completed |-> 0, findings_total |-> 0]
    /\ pc = [p \in Procs |-> "idle"]
    /\ tgt = [p \in Procs |-> None]
    /\ hunt_id = [p \in Procs |-> 0]
    /\ cardsL = [p \in Procs |-> <<>>]
    /\ todo = [p \in Procs |-> <<>>]
    /\ all_findings = [p \in Procs |-> <<>>]
    /\ verified = [p \in Procs |-> <<>>]
    /\ verified_count = [p \in Procs |-> 0]
    /\ result = [p \in Procs |-> [status |-> None, error |-> None]]
    /\ scan = [p \in Procs |-> None]
    /\ calls = [p \in Procs |-> <<>>]
    /\ syncSeen = [p \in Procs |-> -1]
    /\ outlived = [p \in Procs |-> FALSE]
    /\ lastVal = <<>>

\* the positions between the lock acquisition and the end of the finally clause
InHunt == {"locked", "recon", "discovery", "hypotheses", "testing", "cards",
           "gap", "cards2", "validation", "validating", "reports", "complete",
           "finally"}

\* ------------------------------------------------------------ the lease
\* the ttl seconds of the lease have passed: redis removes the key
Expire(d) ==
    /\ HasTTL(d)
    /\ lock' = [lock EXCEPT ![d] = FALSE]
    /\ holder' = [holder EXCEPT ![d] = None]
    /\ outlived' = [p \in Procs |->
                      outlived[p] \/ (holder[d] = p /\ pc[p] \in InHunt)]
    /\ UNCHANGED <<dbVars, pc, locVars, result, scan, calls, lastVal>>

\* -------------------------------------------------------- the tables
\* HuntDB.update(hunt_id, phase=...)
SetPhase(table, h, ph) == [table EXCEPT ![h].phase = ph]

\* HypothesisDB.create_batch: n pending cards of hunt h, as far as the table
\* has room; a card the LLM gave no confidence gets card.get("confidence",
\* "medium")
create_batch(h, n) ==
    AppendN(cards, [hunt_id |-> h, status |-> "pending", confidence |-> "medium"],
            Min(n, MaxCards - Len(cards)))

\* the cards of the hunt whatever their status
get_pending_any(table, h) == Ids(table, {i \in DOMAIN table : table[i].hunt_id = h})

\* the pending cards of the hunt in the order of their ids
get_pending_by_id(table, h) ==
    Ids(table, {i \in DOMAIN table : table[i].hunt_id = h /\ table[i].status = "pending"})

\* CASE confidence WHEN 'high' THEN 1 WHEN 'medium' THEN 2 ELSE 3 END
confidence_rank(c) ==
    CASE c = "high" -> 1 [] c = "medium" -> 2 [] OTHER -> 3

\* HypothesisDB.get_pending: the pending cards of the hunt, ORDER BY the rank
\* of their confidence (cards of one rank in the order of their ids)
get_pending(table, h) ==
    LET ids == Ids(table, {i \in DOMAIN table :
                              table[i].hunt_id = h /\ table[i].status = "pending"})
        of(k) == SelectSeq(ids, LAMBDA i : confidence_rank(table[i].confidence) = k)
    IN  of(1) \o of(2) \o of(3)

\* FindingDB.create: n unverified findings of hunt h, as far as the table has room
FindingDB_create(h, n) ==
    AppendN(findings, [hunt_id |-> h, status |-> "unverified", verified_by |-> None],
            Min(n, MaxFindings - Len(findings)))

\* FindingDB.get_by_hunt
get_by_hunt(table, h) == Ids(table, {i \in DOMAIN table : table[i].hunt_id = h})

\* FindingDB.get_unverified
get_unverified(table, h) ==
    Ids(table, {i \in DOMAIN table : table[i].hunt_id = h /\ table[i].status = "unverified"})

\* ------------------------------------------- validator.validate_finding
StatusCodes == {"200", "302", "401", "403", "404", "500"}
Verdicts == {"CONFIRMED", "FALSE_POSITIVE", None}

Step(stage, passed) == [step |-> stage, result |-> IF passed THEN "PASS" ELSE "FAIL"]

\* line 57: endpoint_pass
endpoint_pass(code) == code \in {"200", "302"}

\* line 49: the result recorded for the http step
http_step(http, waf) == Step("http", http /\ ~waf)

\* the endpoint stage stops on a missing page only
endpoint_stops_missing(code) == code = "404"

\* line 65: the condition under which the endpoint stage stops the pipeline
endpoint_stops(code) == ~endpoint_pass(code) /\ code \in {"404", "403", "401"}

\* _fail_finding: what validate_finding returns and writes on a rejection
fail_finding(steps, probes, reason) ==
    [steps |-> steps, probes |-> probes, status |-> "FALSE_POSITIVE",
     reason |-> reason, write |-> "false_positive"]

\* what the collaborators answer in one validate_finding run: whether nslookup
\* resolved the host, whether the HEAD request answered, whether its headers
\* carry a WAF signature, the status code of the finding URL, whether the body
\* fetched from it is empty, the LLM's verdict (None: the reply has no verdict)
Answers ==
    [dns : BOOLEAN, http : BOOLEAN, waf : BOOLEAN, code : StatusCodes,
     empty : BOOLEAN, verdict : Verdicts]

\* lines 34-126: the pipeline on the answers a
validate_run(a) ==
    LET s1 == <<Step("dns", a.dns)>>
        s2 == Append(s1, http_step(a.http, a.waf))
        s3 == Append(s2, Step("endpoint", endpoint_pass(a.code)))
        s4 == Append(s3, Step("vuln_proof", a.verdict = "CONFIRMED"))
    IN  IF ~a.dns THEN fail_finding(s1, {"nslookup"}, <<"Domain does not resolve">>)
        ELSE IF ~a.http
          THEN fail_finding(s2, {"nslookup", "head"}, <<"Host unreachable">>)
        ELSE IF endpoint_stops(a.code)
          THEN fail_finding(s3, {"nslookup", "head", "fetch"},
                            <<"Endpoint returns HTTP", a.code>>)
        ELSE IF a.verdict = "CONFIRMED"
          THEN [steps |-> s4, probes |-> {"nslookup", "head", "fetch", "llm"},
                status |-> "CONFIRMED", reason |-> <<>>, write |-> "verified"]
        ELSE fail_finding(s4, {"nslookup", "head", "fetch", "llm"}, <<"reasoning">>)

\* validate_finding on an existing finding f: FindingDB.update with the verdict
\* (it does not look at the status the finding has)
validate_finding(f, r) ==
    findings' = [findings EXCEPT ![f].status = r.write,
                                 ![f].verified_by = "poc-validator"]

\* the runs the answers can lead to
ValidationRuns == { validate_run(a) : a \in Answers }

\* what a run leaves behind for its caller: the status returned and the
\* status written to the finding
ValidationOutcomes == { [status |-> r.status, write |-> r.write] : r \in ValidationRuns }

\* ------------------------------------------- reporter.generate_report
\* the finding type is excluded by the platform (nothing is written), or the
\* report is written and the finding becomes reported whatever its status was
generate_report(f, eligible) ==
    findings' = IF eligible THEN [findings EXCEPT ![f].status = "reported"]
                ELSE findings

\* the patterns pushed at the head of the list (LPUSH)
RECURSIVE analyze_findings_lpush(_, _, _)
analyze_findings_lpush(log, d, fs) ==
    IF fs = <<>> THEN log
    ELSE analyze_findings_lpush(<<[source_domain |-> d, finding |-> Head(fs)]>> \o log,
                                d, Tail(fs))

\* cross_target.analyze_findings: one pattern per finding handed in
RECURSIVE analyze_findings(_, _, _)
analyze_findings(log, d, fs) ==
    IF fs = <<>> THEN log
    ELSE analyze_findings(Append(log, [source_domain |-> d, finding |-> Head(fs)]),
                          d, Tail(fs))

\* ------------------------------------------------ brain.run_hunt, by step
\* the variables an action of run_hunt leaves alone unless it names them
loopVars == <<cardsL, todo, all_findings, verified, verified_count>>
ghostVars == <<syncSeen>>

\* a collaborator call is noted in the invocation's call log, with the card or
\* finding it is about (0 if none)
Call(what, arg) == [what |-> what, arg |-> arg]

Called(p, cs) == calls' = [calls EXCEPT ![p] = @ \o cs]

\* the number of calls of a collaborator an invocation has made
Count(p, what) == Len(SelectSeq(calls[p], LAMBDA c : c.what = what))

\* the frame of run_hunt is gone: its loop variables no longer exist
DropFrame(p) ==
    /\ cardsL' = [cardsL EXCEPT ![p] = <<>>]
    /\ todo' = [todo EXCEPT ![p] = <<>>]
    /\ all_findings' = [all_findings EXCEPT ![p] = <<>>]
    /\ verified' = [verified EXCEPT ![p] = <<>>]
    /\ verified_count' = [verified_count EXCEPT ![p] = 0]

\* a return or an exception inside the try block: the finally clause is next
Leave(p, how, e) ==
    /\ pc' = [pc EXCEPT ![p] = "finally"]
    /\ result' = [result EXCEPT ![p] = [status |-> how, error |-> e]]
    /\ DropFrame(p)

\* the statement after this one is next
Goto(p, where) ==
    /\ pc' = [pc EXCEPT ![p] = where]
    /\ UNCHANGED result

\* run_hunt.delay(target["id"]) from run_swarm, schedule_full_retest, the API
\* or the CLI: the task is queued for a worker
Dispatch(p, d) ==
    /\ pc[p] = "idle"
    /\ tgt' = [tgt EXCEPT ![p] = d]
    /\ Goto(p, "start")
    /\ UNCHANGED <<lockVars, dbVars, hunt_id, loopVars, ghostVars, scan, calls, lastVal>>

\* the refusal ignored: the hunt goes on without the lock
OnRefused_proceed == "locked"

\* the refusal returned from inside the try block: the finally clause runs
OnRefused_inTry == "finally"

\* line 32 is outside the try block: the return does not run the finally clause
OnRefused == "done"

\* lines 24-32: look the target up and take the lock, or return skipped
AcquireLock(p) ==
    /\ pc[p] = "start"
    /\ IF set_target_lock(tgt[p])
       THEN /\ lock' = [lock EXCEPT ![tgt[p]] = TRUE]
            /\ holder' = [holder EXCEPT ![tgt[p]] = p]
            /\ Goto(p, "locked")
       ELSE /\ pc' = [pc EXCEPT ![p] = OnRefused]
            /\ result' = [result EXCEPT ![p] = [status |-> "skipped", error |-> None]]
            /\ UNCHANGED <<lock, holder>>
    /\ UNCHANGED <<outlived, dbVars, tgt, hunt_id, loopVars, ghostVars, scan, calls, lastVal>>

\* lines 35-39: HuntDB.create, HuntDB.update(phase="recon")
CreateHunt(p) ==
    /\ pc[p] = "locked"
    /\ hunts' = SetPhase(HuntDB_create(tgt[p], "full"), Len(hunts) + 1, "recon")
    /\ hunt_id' = [hunt_id EXCEPT ![p] = Len(hunts) + 1]
    /\ Goto(p, "recon")
    /\ UNCHANGED <<lockVars, targets, findings, cards, patterns, stats, tgt,
                   loopVars, ghostVars, scan, calls, lastVal>>

\* the failure returned but not written to the Hunt record
ReconFailed_unrecorded(p, e) ==
    /\ hunts' = hunts
    /\ Leave(p, "failed", e)

\* lines 43-45: the recon worker reported an error
ReconFailed(p, e) ==
    /\ hunts' = [hunts EXCEPT ![hunt_id[p]].status = "failed",
                              ![hunt_id[p]].error = e]
    /\ Leave(p, "failed", e)

\* recon.run_recon lines 35-57: the data is stored, the target stamped and the
\* recon checkpoint written
run_recon(p) ==
    /\ targets' = [targets EXCEPT ![tgt[p]].last_recon_at = hunt_id[p],
                                  ![tgt[p]].status = "recon_complete"]
    /\ hunts' = HuntDB_checkpoint(hunts, hunt_id[p], "recon_complete")

\* lines 38-45: run_recon runs the recon CLI, which fails with text e on
\* stderr (out = "error"), succeeds (out = "ok"), or the call raises
Recon(p, out, e) ==
    /\ pc[p] = "recon"
    /\ Called(p, <<Call("recon", 0)>>)
    /\ CASE out = "error" -> ReconFailed(p, e) /\ UNCHANGED targets
         [] out = "ok" -> run_recon(p) /\ Goto(p, "discovery") /\ UNCHANGED loopVars
         [] OTHER -> Leave(p, "exception", None) /\ UNCHANGED <<targets, hunts>>
    /\ UNCHANGED <<lockVars, findings, cards, patterns, stats, tgt, hunt_id,
                   ghostVars, scan, lastVal>>

\* lines 47-50: HuntDB.update(phase="discovery"), ReconDB.get_latest
StartDiscovery(p) ==
    /\ pc[p] = "discovery"
    /\ hunts' = SetPhase(hunts, hunt_id[p], "discovery")
    /\ Goto(p, "hypotheses")
    /\ UNCHANGED <<lockVars, targets, findings, cards, patterns, stats, tgt,
                   hunt_id, loopVars, ghostVars, scan, calls, lastVal>>

\* lines 52-56 and discovery.generate_hypotheses: the LLM answers with n cards,
\* they are stored and the discovery checkpoint is written; or the LLM call
\* raises (n < 0)
GenerateHypotheses(p, n) ==
    /\ pc[p] = "hypotheses"
    /\ Called(p, <<Call("discovery", 0)>>)
    /\ IF n >= 0
       THEN /\ cards' = create_batch(hunt_id[p], n)
            /\ hunts' = HuntDB_checkpoint(hunts, hunt_id[p], "discovery_complete")
            /\ Goto(p, "testing")
            /\ UNCHANGED loopVars
       ELSE Leave(p, "exception", None) /\ UNCHANGED <<cards, hunts>>
    /\ UNCHANGED <<lockVars, targets, findings, patterns, stats, tgt, hunt_id,
                   ghostVars, scan, lastVal>>

\* lines 58-67: HuntDB.update(phase="testing"), run_scan.delay, get_pending
StartTesting(p) ==
    /\ pc[p] = "testing"
    /\ hunts' = SetPhase(hunts, hunt_id[p], "testing")
    /\ scan' = [scan EXCEPT ![p] = "queued"]
    /\ Called(p, <<Call("scan", 0)>>)
    /\ cardsL' = [cardsL EXCEPT ![p] = get_pending(cards, hunt_id[p])]
    /\ Goto(p, "cards")
    /\ UNCHANGED <<lockVars, targets, findings, cards, patterns, stats, tgt,
                   hunt_id, todo, all_findings, verified, verified_count,
                   ghostVars, lastVal>>

\* workers/exploit.test_hypothesis_browser: the card is tested and the test
\* records n Findings
test_hypothesis_browser(p, c, n) ==
    /\ cards' = [cards EXCEPT ![c].status = "tested"]
    /\ findings' = FindingDB_create(hunt_id[p], n)

\* one iteration of the for loop of lines 69-72 (first wave) or 90-92 (second):
\* the test records n findings, or it raises (n < 0)
TestCardAt(p, where, n) ==
    /\ pc[p] = where
    /\ cardsL[p] # <<>>
    /\ Called(p, <<Call("card", Head(cardsL[p]))>>)
    /\ IF n >= 0
       THEN /\ test_hypothesis_browser(p, Head(cardsL[p]), n)
            /\ cardsL' = [cardsL EXCEPT ![p] = Tail(@)]
            /\ UNCHANGED <<pc, result, todo, all_findings, verified, verified_count>>
       ELSE Leave(p, "exception", None) /\ UNCHANGED <<cards, findings>>
    /\ UNCHANGED <<lockVars, targets, hunts, patterns, stats, tgt, hunt_id,
                   ghostVars, scan, lastVal>>

TestCard(p, n) == TestCardAt(p, "cards", n)

TestSecondCard(p, n) == TestCardAt(p, "cards2", n)

\* recon.run_scan, run by a recon worker once it was dispatched: it stores the
\* scanner's n findings under the hunt and stamps the target, or it raises (n < 0)
RunScan(p, n) ==
    /\ scan[p] = "queued"
    /\ IF n >= 0
       THEN /\ findings' = FindingDB_create(hunt_id[p], n)
            /\ targets' = [targets EXCEPT ![tgt[p]].last_scan_at = hunt_id[p]]
            /\ scan' = [scan EXCEPT ![p] = "done"]
       ELSE scan' = [scan EXCEPT ![p] = "error"] /\ UNCHANGED <<findings, targets>>
    /\ UNCHANGED <<lockVars, hunts, cards, patterns, stats, pc, result, locVars,
                   calls, lastVal>>

\* the second wave run whatever the first found
GapCondition_always(found) == TRUE

\* line 81: if not all_findings
GapCondition(found) == found = <<>>

\* the sync phase entered without waiting for the scan
ScanResult_nowait(p) ==
    /\ pc[p] = "cards"
    /\ cardsL[p] = <<>>
    /\ scan[p] \in {"done", "queued"}
    /\ hunts' = SetPhase(hunts, hunt_id[p], "sync")
    /\ LET found == get_by_hunt(findings, hunt_id[p]) IN
         /\ all_findings' = [all_findings EXCEPT ![p] = found]
         /\ syncSeen' = [syncSeen EXCEPT ![p] = Len(found)]
         /\ Goto(p, IF GapCondition(found) THEN "gap" ELSE "validation")
    /\ UNCHANGED <<lockVars, targets, findings, cards, patterns, stats, tgt,
                   hunt_id, cardsL, todo, verified, verified_count, scan,
                   calls, lastVal>>

\* line 75 returns the scan result; lines 77-81: HuntDB.update(phase="sync"),
\* all_findings = FindingDB.get_by_hunt, the gap condition
ScanResult(p) ==
    /\ pc[p] = "cards"
    /\ cardsL[p] = <<>>
    /\ scan[p] = "done"
    /\ hunts' = SetPhase(hunts, hunt_id[p], "sync")
    /\ LET found == get_by_hunt(findings, hunt_id[p]) IN
         /\ all_findings' = [all_findings EXCEPT ![p] = found]
         /\ syncSeen' = [syncSeen EXCEPT ![p] = Len(found)]
         /\ Goto(p, IF GapCondition(found) THEN "gap" ELSE "validation")
    /\ UNCHANGED <<lockVars, targets, findings, cards, patterns, stats, tgt,
                   hunt_id, cardsL, todo, verified, verified_count, scan,
                   calls, lastVal>>

\* line 75: scan_task.get(timeout=900) raises because no result arrived in time
ScanTimeout(p) ==
    /\ pc[p] = "cards"
    /\ cardsL[p] = <<>>
    /\ scan[p] = "queued"
    /\ Leave(p, "timeout", None)
    /\ UNCHANGED <<lockVars, dbVars, tgt, hunt_id, ghostVars, scan, calls, lastVal>>

\* line 75: scan_task.get re-raises the exception the scan task ended with
ScanFailed(p) ==
    /\ pc[p] = "cards"
    /\ cardsL[p] = <<>>
    /\ scan[p] = "error"
    /\ Leave(p, "exception", None)
    /\ UNCHANGED <<lockVars, dbVars, tgt, hunt_id, ghostVars, scan, calls, lastVal>>

\* the second wave writing the discovery checkpoint as the first wave does
gap_triggered_discovery_checkpoint(p, n) ==
    /\ cards' = create_batch(hunt_id[p], n)
    /\ hunts' = HuntDB_checkpoint(hunts, hunt_id[p], "discovery_complete")

\* discovery.gap_triggered_discovery stores the n second-wave cards; it writes
\* no checkpoint
gap_triggered_discovery(p, n) ==
    /\ cards' = create_batch(hunt_id[p], n)
    /\ hunts' = hunts

\* lines 82-89: the gap-triggered second wave and second_cards = get_pending;
\* the LLM answers with n cards or raises (n < 0)
GapDiscovery(p, n) ==
    /\ pc[p] = "gap"
    /\ Called(p, <<Call("gap", 0)>>)
    /\ IF n >= 0
       THEN /\ gap_triggered_discovery(p, n)
            /\ cardsL' = [cardsL EXCEPT ![p] = get_pending(cards', hunt_id[p])]
            /\ Goto(p, "cards2")
            /\ UNCHANGED <<todo, all_findings, verified, verified_count>>
       ELSE Leave(p, "exception", None) /\ UNCHANGED <<cards, hunts>>
    /\ UNCHANGED <<lockVars, targets, findings, patterns, stats, tgt, hunt_id,
                   syncSeen, scan, lastVal>>

\* line 94: all_findings = FindingDB.get_by_hunt after the second wave
Reread(p) ==
    /\ pc[p] = "cards2"
    /\ cardsL[p] = <<>>
    /\ all_findings' = [all_findings EXCEPT ![p] = get_by_hunt(findings, hunt_id[p])]
    /\ Goto(p, "validation")
    /\ UNCHANGED <<lockVars, dbVars, tgt, hunt_id, cardsL, todo, verified,
                   verified_count, ghostVars, scan, calls, lastVal>>

\* lines 96-98: HuntDB.update(phase="validation"), unverified = get_unverified
StartValidation(p) ==
    /\ pc[p] = "validation"
    /\ hunts' = SetPhase(hunts, hunt_id[p], "validation")
    /\ todo' = [todo EXCEPT ![p] = get_unverified(findings, hunt_id[p])]
    /\ Goto(p, "validating")
    /\ UNCHANGED <<lockVars, targets, findings, cards, patterns, stats, tgt,
                   hunt_id, cardsL, all_findings, verified, verified_count,
                   ghostVars, scan, calls, lastVal>>

\* validate_finding raises (the LLM call fails) before it wrote anything
Raised == [status |-> "raise", write |-> None]

\* the loop with a break: the first rejection ends the validation phase
ValidateNext_stop(p, r) ==
    /\ pc[p] = "validating"
    /\ todo[p] # <<>>
    /\ Called(p, <<Call("validate", Head(todo[p]))>>)
    /\ IF r # Raised
       THEN /\ validate_finding(Head(todo[p]), r)
            /\ verified_count' = [verified_count EXCEPT ![p] =
                                    IF r.status = "CONFIRMED" THEN @ + 1 ELSE @]
            /\ todo' = [todo EXCEPT ![p] =
                          IF r.status = "CONFIRMED" THEN Tail(@) ELSE <<>>]
            /\ UNCHANGED <<pc, result, cardsL, all_findings, verified>>
       ELSE Leave(p, "exception", None) /\ UNCHANGED findings
    /\ UNCHANGED <<lockVars, targets, hunts, cards, patterns, stats, tgt, hunt_id,
                   ghostVars, scan, lastVal>>

\* one iteration of the for loop of lines 102-105: validate_finding runs as r,
\* or it raises (r = Raised)
ValidateNext(p, r) ==
    /\ pc[p] = "validating"
    /\ todo[p] # <<>>
    /\ Called(p, <<Call("validate", Head(todo[p]))>>)
    /\ IF r # Raised
       THEN /\ validate_finding(Head(todo[p]), r)
            /\ verified_count' = [verified_count EXCEPT ![p] =
                                    IF r.status = "CONFIRMED" THEN @ + 1 ELSE @]
            /\ todo' = [todo EXCEPT ![p] = Tail(@)]
            /\ UNCHANGED <<pc, result, cardsL, all_findings, verified>>
       ELSE Leave(p, "exception", None) /\ UNCHANGED findings
    /\ UNCHANGED <<lockVars, targets, hunts, cards, patterns, stats, tgt, hunt_id,
                   ghostVars, scan, lastVal>>

\* the reporting phase taking every finding of the hunt, whatever its status
StartReporting_all(p) ==
    /\ pc[p] = "validating"
    /\ todo[p] = <<>>
    /\ hunts' = SetPhase(hunts, hunt_id[p], "reporting")
    /\ verified' = [verified EXCEPT ![p] = get_by_hunt(findings, hunt_id[p])]
    /\ todo' = [todo EXCEPT ![p] = get_by_hunt(findings, hunt_id[p])]
    /\ Goto(p, "reports")
    /\ UNCHANGED <<lockVars, targets, findings, cards, patterns, stats, tgt,
                   hunt_id, cardsL, all_findings, verified_count, ghostVars,
                   scan, calls, lastVal>>

\* lines 107-109: HuntDB.update(phase="reporting"), the verified findings
StartReporting(p) ==
    /\ pc[p] = "validating"
    /\ todo[p] = <<>>
    /\ hunts' = SetPhase(hunts, hunt_id[p], "reporting")
    /\ LET v == SelectSeq(get_by_hunt(findings, hunt_id[p]),
                           LAMBDA f : findings[f].status = "verified") IN
         /\ verified' = [verified EXCEPT ![p] = v]
         /\ todo' = [todo EXCEPT ![p] = v]
    /\ Goto(p, "reports")
    /\ UNCHANGED <<lockVars, targets, findings, cards, patterns, stats, tgt,
                   hunt_id, cardsL, all_findings, verified_count, ghostVars,
                   scan, calls, lastVal>>

\* one iteration of the for loop of lines 112-114: the report is written
\* (how = "ok"), the finding type is ineligible, or the call raises
ReportNext(p, how) ==
    /\ pc[p] = "reports"
    /\ todo[p] # <<>>
    /\ Called(p, <<Call("report", Head(todo[p]))>>)
    /\ IF how # "raise"
       THEN /\ generate_report(Head(todo[p]), how = "ok")
            /\ todo' = [todo EXCEPT ![p] = Tail(@)]
            /\ UNCHANGED <<pc, result, cardsL, all_findings, verified, verified_count>>
       ELSE Leave(p, "exception", None) /\ UNCHANGED findings
    /\ UNCHANGED <<lockVars, targets, hunts, cards, patterns, stats, tgt, hunt_id,
                   ghostVars, scan, lastVal>>

\* lines 116-120: generate_hunt_summary, then the cross-target analysis
Summarise(p) ==
    /\ pc[p] = "reports"
    /\ todo[p] = <<>>
    /\ Called(p, <<Call("summary", 0), Call("cross", 0)>>)
    /\ patterns' = analyze_findings(patterns, tgt[p], verified[p])
    /\ Goto(p, "complete")
    /\ UNCHANGED <<lockVars, targets, hunts, findings, cards, stats, locVars,
                   scan, lastVal>>

\* lines 122-143: the hunt is complete
Complete(p) ==
    /\ pc[p] = "complete"
    /\ hunts' = [hunts EXCEPT ![hunt_id[p]].status = "complete",
                              ![hunt_id[p]].findings_count = verified_count[p]]
    /\ targets' = [targets EXCEPT ![tgt[p]].last_full_hunt_at = hunt_id[p],
                                  ![tgt[p]].total_findings = Len(verified[p])]
    /\ stats' = [hunts_completed |-> stats.hunts_completed + 1,
                 findings_total |-> stats.findings_total + verified_count[p]]
    /\ Leave(p, "complete", None)
    /\ UNCHANGED <<lockVars, findings, cards, patterns, tgt, hunt_id, ghostVars,
                   scan, calls, lastVal>>

\* the bookkeeping of the target moved into the finally clause: the target is
\* stamped however the invocation ended
Finally_stamps(p) ==
    /\ pc[p] = "finally"
    /\ lock' = release_target_lock(tgt[p])
    /\ holder' = [holder EXCEPT ![tgt[p]] = None]
    /\ pc' = [pc EXCEPT ![p] = "done"]
    /\ targets' = [targets EXCEPT ![tgt[p]].last_full_hunt_at = hunt_id[p]]
    /\ UNCHANGED <<outlived, hunts, findings, cards, patterns, stats, locVars,
                   result, scan, calls, lastVal>>

\* lines 145-146: finally: TaskQueue.release_target_lock(domain)
Finally(p) ==
    /\ pc[p] = "finally"
    /\ lock' = release_target_lock(tgt[p])
    /\ holder' = [holder EXCEPT ![tgt[p]] = None]
    /\ pc' = [pc EXCEPT ![p] = "done"]
    /\ UNCHANGED <<outlived, dbVars, locVars, result, scan, calls, lastVal>>

\* the worker process dies (kill, power loss): nothing more runs, not even the
\* finally clause
Crash(p) ==
    /\ pc[p] \in InHunt
    /\ pc' = [pc EXCEPT ![p] = "dead"]
    /\ DropFrame(p)
    /\ UNCHANGED <<lockVars, dbVars, tgt, hunt_id, ghostVars, result, scan,
                   calls, lastVal>>

\* ------------------------------------------------ tasks run on their own
\* the Celery task validate_finding (queue "validate") on finding f, as
\* batch_validate runs it for each id it is given
TaskValidate(f, r) ==
    /\ f \in 1..Len(findings)
    /\ validate_finding(f, r)
    /\ UNCHANGED <<lockVars, targets, hunts, cards, patterns, stats, pc, locVars,
                   result, scan, calls, lastVal>>

\* the same task, its answers and its return value kept for inspection
ValidateTask(f, a) ==
    /\ f \in 1..Len(findings)
    /\ validate_finding(f, validate_run(a))
    /\ lastVal' = <<[finding |-> f, answers |-> a, run |-> validate_run(a)]>>
    /\ UNCHANGED <<lockVars, targets, hunts, cards, patterns, stats, pc, locVars,
                   result, scan, calls>>

\* the same task when llm.chat_json raises: the first three stages let the
\* run through and the reply holds no JSON value, so the exception leaves
\* validate_finding before anything is written
ValidateRaises(f, a) ==
    /\ f \in 1..Len(findings)
    /\ a.dns /\ a.http /\ ~endpoint_stops(a.code)
    /\ a.verdict = None
    /\ lastVal' = <<[finding |-> f, answers |-> a,
                     run |-> [steps |-> <<Step("dns", a.dns), http_step(a.http, a.waf),
                                         Step("endpoint", endpoint_pass(a.code))>>,
                              probes |-> {"nslookup", "head", "fetch", "llm"},
                              status |-> "raise", reason |-> <<>>,
                              write |-> None]]>>
    /\ UNCHANGED <<lockVars, dbVars, pc, locVars, result, scan, calls>>

\* ------------------------------------------- validator.batch_validate
\* the whole list: nothing is cut
batch_slice_all(ids) == ids

\* line 133: finding_ids[:10]
batch_slice(ids) == SubSeq(ids, 1, Min(Len(ids), BatchCap))

\* lines 136-141: the value batch_validate returns for its results
batch_result(results) ==
    [total |-> Len(results),
     confirmed |-> Len(SelectSeq(results, LAMBDA r : r.status = "CONFIRMED")),
     false_positive |-> Len(SelectSeq(results, LAMBDA r : r.status = "FALSE_POSITIVE"))]

\* batch_validate(hunt_id, ids) is called: results = [] and the loop is entered
BatchStart(ids) ==
    /\ lastVal = <<>>
    /\ lastVal' = <<[op |-> "batch_validate", ids |-> ids, rest |-> batch_slice(ids),
                     results |-> <<>>, state |-> "running", ret |-> <<>>]>>
    /\ UNCHANGED <<lockVars, dbVars, pc, locVars, result, scan, calls>>

\* one iteration of the loop of lines 133-135: validate_finding on the next id
\* ends as r, or returns an error without writing if no finding has the id
BatchStep(r) ==
    /\ lastVal # <<>> /\ lastVal[1].op = "batch_validate"
    /\ lastVal[1].state = "running" /\ lastVal[1].rest # <<>>
    /\ LET fid == Head(lastVal[1].rest)
           found == fid \in DOMAIN findings
       IN  /\ IF found THEN validate_finding(fid, r) ELSE UNCHANGED findings
           /\ lastVal' = <<[lastVal[1] EXCEPT
                   !.rest = Tail(@),
                   !.results = Append(@, [id |-> fid,
                                          status |-> IF found THEN r.status
                                                     ELSE "error"])]>>
    /\ UNCHANGED <<lockVars, targets, hunts, cards, patterns, stats, pc, locVars,
                   result, scan, calls>>

\* validate_finding raises on the next id (the LLM reply cannot be parsed):
\* the exception leaves batch_validate, which returns nothing
BatchRaises ==
    /\ lastVal # <<>> /\ lastVal[1].op = "batch_validate"
    /\ lastVal[1].state = "running" /\ lastVal[1].rest # <<>>
    /\ Head(lastVal[1].rest) \in DOMAIN findings
    /\ lastVal' = <<[lastVal[1] EXCEPT !.state = "raised"]>>
    /\ UNCHANGED <<lockVars, dbVars, pc, locVars, result, scan, calls>>

\* the loop is over: the counts are returned
BatchReturn ==
    /\ lastVal # <<>> /\ lastVal[1].op = "batch_validate"
    /\ lastVal[1].state = "running" /\ lastVal[1].rest = <<>>
    /\ lastVal' = <<[lastVal[1] EXCEPT !.state = "returned",
                                       !.ret = <<batch_result(lastVal[1].results)>>]>>
    /\ UNCHANGED <<lockVars, dbVars, pc, locVars, result, scan, calls>>

\* the Celery task generate_report (queue "report") on finding f
TaskReport(f, eligible) ==
    /\ f \in 1..Len(findings)
    /\ generate_report(f, eligible)
    /\ UNCHANGED <<lockVars, targets, hunts, cards, patterns, stats, pc, locVars,
                   result, scan, calls, lastVal>>

\* --------------------------------------- scheduler.PriorityScheduler
\* round(n / d) to the nearest integer, halves to the even one, for n, d > 0
RoundHalfEven(n, d) ==
    LET q == n \div d
        r == n % d
    IN  IF 2 * r > d THEN q + 1
        ELSE IF 2 * r < d THEN q
        ELSE IF q % 2 = 0 THEN q ELSE q + 1

RECURSIVE Power(_, _)
Power(b, e) == IF e = 0 THEN 1 ELSE b * Power(b, e - 1)

\* line 22-23: max(bounty_avg / 1000, 0.1), in units of 1 / (2 * BountyScale)
bounty_factor(t) ==
    LET twice == t.bounty_min + t.bounty_max
        floor == (2 * BountyScale) \div FloorInverse
    IN  IF twice > floor THEN twice ELSE floor

\* the staleness of a target never hunted reports the cap
staleness_never_zero(t, now) ==
    IF t.last_full_hunt_at = 0 THEN 0
    ELSE Min(now - t.last_full_hunt_at, StalenessCap * HoursPerDay)

\* lines 26-31: 10.0 if never hunted, else min(hours_since / 24, 10.0), in
\* units of 1 / HoursPerDay; now and the column are in hours, 0 is NULL
staleness(t, now) ==
    IF t.last_full_hunt_at = 0 THEN StalenessCap * HoursPerDay
    ELSE Min(now - t.last_full_hunt_at, StalenessCap * HoursPerDay)

\* lines 34-35: 1.0 + total_findings * 0.2, in units of 1 / RateInverse
findings_rate(t) == RateInverse + t.total_findings

\* the priority dividing instead of multiplying
manual_inverted(t) == (MaxPriority + 1) - t.priority

\* line 38: priority / 5.0, in units of 1 / PriorityBase
manual(t) == t.priority

\* lines 40-41: the product rounded to two decimals, in units of 1 / 100
score_target(t, now) ==
    RoundHalfEven(
        bounty_factor(t) * staleness(t, now) * findings_rate(t) * manual(t)
            * Power(10, ScoreDigits),
        2 * BountyScale * HoursPerDay * RateInverse * PriorityBase)

\* s with x put behind every element whose key is at least the key of x
RECURSIVE Insert(_, _, _)
Insert(s, x, key) ==
    IF s = <<>> THEN <<x>>
    ELSE IF key[Head(s)] >= key[x] THEN <<Head(s)>> \o Insert(Tail(s), x, key)
    ELSE <<x>> \o s

\* list.sort(key, reverse=True): descending by key, equal keys in their order
RECURSIVE SortDesc(_, _)
SortDesc(s, key) ==
    IF s = <<>> THEN <<>>
    ELSE Insert(SortDesc(SubSeq(s, 1, Len(s) - 1), key), s[Len(s)], key)

\* the targets in the order they were registered
Registered == <<"a.com", "b.com", "c.com", "d.com">>

\* TargetDB.list_all: ORDER BY priority DESC (then by updated_at, here the
\* order of registration)
list_all(tt) ==
    SortDesc(SelectSeq(Registered, LAMBDA d : d \in DOMAIN tt),
             [d \in DOMAIN tt |-> tt[d].priority])

\* HuntDB.get_active: the hunts with status running
get_active(hh) == Ids(hh, {h \in DOMAIN hh : hh[h].status = "running"})

\* the batch cut without looking at the free slots
get_next_batch_uncut(tt, hh, max_concurrent, now) ==
    LET active_hunts == get_active(hh)
        active_domains == {hh[active_hunts[i]].target : i \in DOMAIN active_hunts}
        available == SelectSeq(list_all(tt),
                         LAMBDA d : tt[d].status # "disabled" /\ ~(d \in active_domains))
    IN  SortDesc(available, [d \in DOMAIN tt |-> score_target(tt[d], now)])

\* lines 43-62: the available targets by descending score, cut to the free slots
get_next_batch(tt, hh, max_concurrent, now) ==
    LET active_hunts == get_active(hh)
        active_domains == {hh[active_hunts[i]].target : i \in DOMAIN active_hunts}
        available == SelectSeq(list_all(tt),
                         LAMBDA d : tt[d].status # "disabled" /\ ~(d \in active_domains))
        scored == SortDesc(available, [d \in DOMAIN tt |-> score_target(tt[d], now)])
        slots == max_concurrent - Len(active_hunts)
    IN  IF slots <= 0 THEN <<>>
        ELSE SubSeq(scored, 1, Min(slots, Len(scored)))

\* ------------------------------------ cross_target.CrossTargetAnalyzer
\* A finding type is a number, 0 for the empty type ("" or null). A
\* technology of the tech stack is the set of indicators that occur in its
\* name once lowercased (line 94).
NoType == 0

\* the pattern analyze_findings stores, as get_transfer_hypotheses reads it
Pattern(d, ty) == [source_domain |-> d, finding_type |-> ty]

\* lines 16-52: the entries in dictionary order
TRANSFERABLE_PATTERNS ==
    <<[name |-> "graphql_introspection", indicator |-> "graphql"],
      [name |-> "graphql_aliasing", indicator |-> "graphql"],
      [name |-> "idor_sequential", indicator |-> "api"],
      [name |-> "jwt_none_alg", indicator |-> "jwt"],
      [name |-> "cors_reflection", indicator |-> "api"],
      [name |-> "admin_panel", indicator |-> "web"],
      [name |-> "debug_endpoints", indicator |-> "web"]>>

\* the type test alone: patterns of the target itself are not left out
transfers_own(p, target_domain, seen_types) ==
    p.finding_type # NoType /\ ~(p.finding_type \in seen_types)

\* lines 72 and 80: the pattern yields a direct-transfer hypothesis
transfers(p, target_domain, seen_types) ==
    /\ p.source_domain # target_domain
    /\ p.finding_type # NoType
    /\ ~(p.finding_type \in seen_types)

\* lines 77-91: the direct-transfer hypotheses of a log, in log order
RECURSIVE direct_transfer(_, _, _)
direct_transfer(log, target_domain, seen_types) ==
    IF log = <<>> THEN <<>>
    ELSE IF transfers(Head(log), target_domain, seen_types)
      THEN <<[confidence |-> "medium", finding_type |-> Head(log).finding_type,
              source_domain |-> Head(log).source_domain, test |-> None]>>
           \o direct_transfer(Tail(log), target_domain,
                              seen_types \cup {Head(log).finding_type})
    ELSE direct_transfer(Tail(log), target_domain, seen_types)

\* lines 94-106: one hypothesis per entry whose indicator occurs in a
\* technology of the stack
tech_stack_matching(tech_stack) ==
    LET hit == SelectSeq(TRANSFERABLE_PATTERNS,
                         LAMBDA e : \E i \in DOMAIN tech_stack :
                                        e.indicator \in tech_stack[i])
    IN  [i \in 1..Len(hit) |->
            [confidence |-> "low", finding_type |-> NoType, source_domain |-> None,
             test |-> hit[i].name]]

\* the whole list is returned
get_transfer_hypotheses_uncut(log, target_domain, tech_stack) ==
    direct_transfer(log, target_domain, {}) \o tech_stack_matching(tech_stack)

\* lines 69-108
get_transfer_hypotheses(log, target_domain, tech_stack) ==
    LET hypotheses == direct_transfer(log, target_domain, {})
                         \o tech_stack_matching(tech_stack)
    IN  SubSeq(hypotheses, 1, Min(Len(hypotheses), HypothesisCap))

\* --------------------------------------------------- the specifications
\* every step of one run_hunt invocation on a domain of D and of the scan it
\* dispatched; a collaborator call returns n items for an n of Outs, and
\* raises for n = -1
Hunt(p, D, Outs) ==
    \/ \E d \in D : Dispatch(p, d)
    \/ AcquireLock(p)
    \/ CreateHunt(p)
    \/ \E out \in {"ok", "error", "raise"}, e \in ReconErrors : Recon(p, out, e)
    \/ StartDiscovery(p)
    \/ \E n \in Outs : GenerateHypotheses(p, n)
    \/ StartTesting(p)
    \/ \E n \in Outs : TestCard(p, n)
    \/ \E n \in Outs : RunScan(p, n)
    \/ ScanResult(p)
    \/ ScanTimeout(p)
    \/ ScanFailed(p)
    \/ \E n \in Outs : GapDiscovery(p, n)
    \/ \E n \in Outs : TestSecondCard(p, n)
    \/ Reread(p)
    \/ StartValidation(p)
    \/ \E r \in ValidationOutcomes \cup {Raised} : ValidateNext(p, r)
    \/ StartReporting(p)
    \/ \E how \in {"ok", "ineligible", "raise"} : ReportNext(p, how)
    \/ Summarise(p)
    \/ Complete(p)
    \/ Finally(p)

\* one run_hunt invocation, the lease, and the validator and reporter tasks
\* run on their own
Next ==
    \/ \E d \in Domains : Expire(d)
    \/ Hunt("w1", Domains, -1..MaxBatch)
    \/ Crash("w1")
    \/ \E f \in 1..MaxFindings, r \in ValidationOutcomes : TaskValidate(f, r)
    \/ \E f \in 1..MaxFindings, eligible \in BOOLEAN : TaskReport(f, eligible)

Spec == Init /\ [][Next]_vars

\* two run_hunt invocations and the lease. The domains being alike, the first
\* invocation is the one on a.com; the second is uneventful: after recon its
\* collaborators return nothing and do not raise, and its worker is not killed
LockNext ==
    \/ \E d \in Domains : Expire(d)
    \/ Hunt("w1", {"a.com"}, -1..MaxBatch)
    \/ Crash("w1")
    \/ Hunt("w2", Domains, {0})

LockSpec == Init /\ [][LockNext]_vars

\* the validator task on the findings a hunt left behind: the hunt on a.com
\* recorded one finding per track and then timed out waiting for a scan that
\* finished late (a state Spec reaches)
ValInit ==
    /\ lock = [d \in Domains |-> FALSE]
    /\ holder = [d \in Domains |-> None]
    /\ targets = [d \in Domains |->
                    [status |-> IF d = "a.com" THEN "recon_complete" ELSE "pending",
                     last_recon_at |-> IF d = "a.com" THEN 1 ELSE 0,
                     last_scan_at |-> IF d = "a.com" THEN 1 ELSE 0,
                     bounty_min |-> 0, bounty_max |-> 0,
                     priority |-> DefaultPriority,
                     last_full_hunt_at |-> 0, total_findings |-> 0]]
    /\ hunts = <<[target |-> "a.com", hunt_type |-> "full", status |-> "running",
                  phase |-> "testing", error |-> None,
                  checkpoint |-> "discovery_complete", findings_count |-> 0]>>
    /\ findings = <<[hunt_id |-> 1, status |-> "unverified", verified_by |-> None],
                    [hunt_id |-> 1, status |-> "unverified", verified_by |-> None]>>
    /\ cards = <<[hunt_id |-> 1, status |-> "tested", confidence |-> "medium"]>>
    /\ patterns = <<>>
    /\ stats = [hunts_completed |-> 0, findings_total |-> 0]
    /\ pc = [p \in Procs |-> IF p = "w1" THEN "done" ELSE "idle"]
    /\ tgt = [p \in Procs |-> IF p = "w1" THEN "a.com" ELSE None]
    /\ hunt_id = [p \in Procs |-> IF p = "w1" THEN 1 ELSE 0]
    /\ cardsL = [p \in Procs |-> <<>>]
    /\ todo = [p \in Procs |-> <<>>]
    /\ all_findings = [p \in Procs |-> <<>>]
    /\ verified = [p \in Procs |-> <<>>]
    /\ verified_count = [p \in Procs |-> 0]
    /\ result = [p \in Procs |-> [status |-> IF p = "w1" THEN "timeout" ELSE None,
                                  error |-> None]]
    /\ scan = [p \in Procs |-> IF p = "w1" THEN "done" ELSE None]
    /\ calls = [p \in Procs |-> IF p = "w1"
                  THEN <<Call("recon", 0), Call("discovery", 0), Call("scan", 0),
                         Call("card", 1)>>
                  ELSE <<>>]
    /\ syncSeen = [p \in Procs |-> -1]
    /\ outlived = [p \in Procs |-> FALSE]
    /\ lastVal = <<>>

ValNext ==
    \E f \in 1..MaxFindings, a \in Answers :
        \/ ValidateTask(f, a)
        \/ ValidateRaises(f, a)

ValSpec == ValInit /\ [][ValNext]_vars


\* one run_hunt invocation and the lease; Redis lets a lease that exists run
\* out in the end, whatever the workers do
FairNext ==
    \/ \E d \in Domains : Expire(d)
    \/ Hunt("w1", Domains, -1..MaxBatch)
    \/ Crash("w1")

FairSpec == Init /\ [][FairNext]_vars /\ \A d \in Domains : WF_vars(Expire(d))

\* the state after construction, with tables as given
Fresh(tt, hh) ==
    /\ lock = [d \in Domains |-> FALSE]
    /\ holder = [d \in Domains |-> None]
    /\ targets = tt
    /\ hunts = hh
    /\ findings = <<>>
    /\ cards = <<>>
    /\ patterns = <<>>
    /\ stats = [hunts_completed |-> 0, findings_total |-> 0]
    /\ pc = [p \in Procs |-> "idle"]
    /\ tgt = [p \in Procs |-> None]
    /\ hunt_id = [p \in Procs |-> 0]
    /\ cardsL = [p \in Procs |-> <<>>]
    /\ todo = [p \in Procs |-> <<>>]
    /\ all_findings = [p \in Procs |-> <<>>]
    /\ verified = [p \in Procs |-> <<>>]
    /\ verified_count = [p \in Procs |-> 0]
    /\ result = [p \in Procs |-> [status |-> None, error |-> None]]
    /\ scan = [p \in Procs |-> None]
    /\ calls = [p \in Procs |-> <<>>]
    /\ syncSeen = [p \in Procs |-> -1]
    /\ outlived = [p \in Procs |-> FALSE]
    /\ lastVal = <<>>

\* TargetDB.add with the columns given, later updates included
Target(st, bmin, bmax, prio, last, total) ==
    [status |-> st, bounty_min |-> bmin, bounty_max |-> bmax, priority |-> prio,
     last_recon_at |-> 0, last_scan_at |-> 0, last_full_hunt_at |-> last,
     total_findings |-> total]

Bounties == {k * BountyUnit : k \in 0..MaxBountySteps}
Priorities == 1..MaxPriority
Clock == {k * HourUnit : k \in 1..MaxHourSteps}
\* NULL, or the first clock reading
HuntStamps == {0, HourUnit}

\* score_target on a registered target: a.com was added with any bounties,
\* priority and history
ScoreInit ==
    \E bmin \in Bounties, bmax \in Bounties, prio \in Priorities,
       last \in HuntStamps, total \in 0..MaxTotal :
        Fresh([d \in Domains |->
                 IF d = "a.com" THEN Target("pending", bmin, bmax, prio, last, total)
                 ELSE Target("pending", 0, 0, DefaultPriority, 0, 0)], <<>>)

\* scheduler.score_target(target) when the clock reads now
ScoreTarget(d, now) ==
    /\ now >= targets[d].last_full_hunt_at
    /\ lastVal' = <<[op |-> "score_target", target |-> targets[d], now |-> now,
                     score |-> score_target(targets[d], now)]>>
    /\ UNCHANGED <<lockVars, dbVars, pc, locVars, result, scan, calls>>

ScoreNext == \E now \in Clock : ScoreTarget("a.com", now)

ScoreSpec == ScoreInit /\ [][ScoreNext]_vars

\* the tables when the scheduler is called: both targets registered with a
\* bounty, a priority and a history, either may have been removed (disabled);
\* the hunts table holds full hunts, running or complete
SchedTargets ==
    {Target(st, 0, bmax, prio, last, 0) :
        st \in {"pending", "disabled"}, bmax \in {0, BountyUnit * MaxBountySteps},
        prio \in {DefaultPriority, MaxPriority}, last \in HuntStamps}

\* a full hunt that has just been created, or one that is complete
SchedHunts ==
    {[target |-> d, hunt_type |-> "full", status |-> st,
      phase |-> IF st = "running" THEN "recon" ELSE "reporting", error |-> None,
      checkpoint |-> IF st = "running" THEN None ELSE "discovery_complete",
      findings_count |-> 0] :
        d \in Domains, st \in {"running", "complete"}}

SchedInit ==
    \E tt \in [Domains -> SchedTargets], n \in 0..MaxHunts :
        \E hh \in [1..n -> SchedHunts] : Fresh(tt, hh)

\* PriorityScheduler(max_concurrent).get_next_batch() when the clock reads now
GetNextBatch(max_concurrent, now) ==
    /\ \A d \in Domains : now >= targets[d].last_full_hunt_at
    /\ lastVal' = <<[op |-> "get_next_batch", max_concurrent |-> max_concurrent,
                     now |-> now,
                     batch |-> get_next_batch(targets, hunts, max_concurrent, now)]>>
    /\ UNCHANGED <<lockVars, dbVars, pc, locVars, result, scan, calls>>

SchedNext ==
    \E max_concurrent \in 0..DefaultConcurrent, now \in Clock :
        GetNextBatch(max_concurrent, now)

SchedSpec == SchedInit /\ [][SchedNext]_vars

\* batch_validate on the findings of a hunt whose scan recorded more findings
\* than one batch takes
BatchFindings == BatchCap + MaxExtra

\* the first n ids in ascending order
Asc(n) == [i \in 1..n |-> i]

\* the lists handed to batch_validate: a prefix of the ids in order, all ids
\* in descending order, all ids with one that no finding has (within the first
\* ten or after them), all ids with the first one repeated at the end
BatchLists ==
    {Asc(n) : n \in 0..BatchFindings}
      \cup {[i \in 1..BatchFindings |-> BatchFindings + 1 - i]}
      \cup {[Asc(BatchFindings) EXCEPT ![k] = BatchFindings + 1] :
               k \in {1, BatchFindings}}
      \cup {[Asc(BatchFindings) EXCEPT ![BatchFindings] = 1]}

BatchInit ==
    /\ lock = [d \in Domains |-> FALSE]
    /\ holder = [d \in Domains |-> None]
    /\ targets = [d \in Domains |->
                    [status |-> IF d = "a.com" THEN "recon_complete" ELSE "pending",
                     last_recon_at |-> IF d = "a.com" THEN 1 ELSE 0,
                     last_scan_at |-> IF d = "a.com" THEN 1 ELSE 0,
                     bounty_min |-> 0, bounty_max |-> 0,
                     priority |-> DefaultPriority,
                     last_full_hunt_at |-> 0, total_findings |-> 0]]
    /\ hunts = <<[target |-> "a.com", hunt_type |-> "full", status |-> "running",
                  phase |-> "testing", error |-> None,
                  checkpoint |-> "discovery_complete", findings_count |-> 0]>>
    /\ findings = [i \in 1..BatchFindings |->
                     [hunt_id |-> 1, status |-> "unverified", verified_by |-> None]]
    /\ cards = <<>>
    /\ patterns = <<>>
    /\ stats = [hunts_completed |-> 0, findings_total |-> 0]
    /\ pc = [p \in Procs |-> IF p = "w1" THEN "done" ELSE "idle"]
    /\ tgt = [p \in Procs |-> IF p = "w1" THEN "a.com" ELSE None]
    /\ hunt_id = [p \in Procs |-> IF p = "w1" THEN 1 ELSE 0]
    /\ cardsL = [p \in Procs |-> <<>>]
    /\ todo = [p \in Procs |-> <<>>]
    /\ all_findings = [p \in Procs |-> <<>>]
    /\ verified = [p \in Procs |-> <<>>]
    /\ verified_count = [p \in Procs |-> 0]
    /\ result = [p \in Procs |-> [status |-> IF p = "w1" THEN "timeout" ELSE None,
                                  error |-> None]]
    /\ scan = [p \in Procs |-> IF p = "w1" THEN "done" ELSE None]
    /\ calls = [p \in Procs |-> IF p = "w1"
                  THEN <<Call("recon", 0), Call("discovery", 0), Call("scan", 0)>>
                  ELSE <<>>]
    /\ syncSeen = [p \in Procs |-> -1]
    /\ outlived = [p \in Procs |-> FALSE]
    /\ lastVal = <<>>

BatchNext ==
    \/ \E ids \in BatchLists : BatchStart(ids)
    \/ \E r \in ValidationOutcomes : BatchStep(r)
    \/ BatchRaises
    \/ BatchReturn

BatchSpec == BatchInit /\ [][BatchNext]_vars

\* get_transfer_hypotheses on a pattern log: the targets hunted so far are
\* the registered ones and a third
Sources == Domains \cup {"c.com"}

\* logs of up to MaxLog patterns of any source, with the empty type or one of
\* two types; and logs of up to MaxTypes patterns of distinct types, recorded
\* in turn from a.com and c.com
PatternLogs ==
    UNION {[1..n -> {Pattern(d, ty) : d \in Sources, ty \in 0..2}] : n \in 0..MaxLog}
      \cup {[i \in 1..n |-> Pattern(IF i % 2 = 1 THEN "a.com" ELSE "c.com", i)] :
               n \in 0..MaxTypes}

\* no technology, one that names GraphQL, one that names an API with JWT,
\* and a stack in which every indicator occurs
TechStacks ==
    {<<>>, <<{"graphql"}>>, <<{}, {"api", "jwt"}>>,
     <<{"graphql", "api"}, {"jwt"}, {"web"}>>}

\* the log is kept in Redis and outlives the tables, which the analyzer does
\* not read
CrossInit ==
    /\ lock = [d \in Domains |-> FALSE]
    /\ holder = [d \in Domains |-> None]
    /\ targets = [d \in Domains |-> Target("pending", 0, 0, DefaultPriority, 0, 0)]
    /\ hunts = <<>>
    /\ findings = <<>>
    /\ cards = <<>>
    /\ patterns \in PatternLogs
    /\ stats = [hunts_completed |-> 0, findings_total |-> 0]
    /\ pc = [p \in Procs |-> "idle"]
    /\ tgt = [p \in Procs |-> None]
    /\ hunt_id = [p \in Procs |-> 0]
    /\ cardsL = [p \in Procs |-> <<>>]
    /\ todo = [p \in Procs |-> <<>>]
    /\ all_findings = [p \in Procs |-> <<>>]
    /\ verified = [p \in Procs |-> <<>>]
    /\ verified_count = [p \in Procs |-> 0]
    /\ result = [p \in Procs |-> [status |-> None, error |-> None]]
    /\ scan = [p \in Procs |-> None]
    /\ calls = [p \in Procs |-> <<>>]
    /\ syncSeen = [p \in Procs |-> -1]
    /\ outlived = [p \in Procs |-> FALSE]
    /\ lastVal = <<>>

\* CrossTargetAnalyzer().get_transfer_hypotheses(target_domain, tech_stack)
GetTransferHypotheses(target_domain, tech_stack) ==
    /\ lastVal' = <<[op |-> "get_transfer_hypotheses",
                     target_domain |-> target_domain, tech_stack |-> tech_stack,
                     hypotheses |-> get_transfer_hypotheses(patterns, target_domain,
                                                            tech_stack)]>>
    /\ UNCHANGED <<lockVars, dbVars, pc, locVars, result, scan, calls>>

CrossNext ==
    \E target_domain \in Domains, tech_stack \in TechStacks :
        GetTransferHypotheses(target_domain, tech_stack)

CrossSpec == CrossInit /\ [][CrossNext]_vars

\* a second hunt of a.com: the first one tested one card, verified and
\* reported its one finding and completed (a state Spec reaches); the second
\* invocation is dispatched on the same target
RehuntInit ==
    /\ lock = [d \in Domains |-> FALSE]
    /\ holder = [d \in Domains |-> None]
    /\ targets = [d \in Domains |->
                    IF d = "a.com"
                    THEN [Target("recon_complete", 0, 0, DefaultPriority, 1, 1)
                             EXCEPT !.last_recon_at = 1, !.last_scan_at = 1]
                    ELSE Target("pending", 0, 0, DefaultPriority, 0, 0)]
    /\ hunts = <<[target |-> "a.com", hunt_type |-> "full", status |-> "complete",
                  phase |-> "reporting", error |-> None,
                  checkpoint |-> "discovery_complete", findings_count |-> 1]>>
    /\ findings = <<[hunt_id |-> 1, status |-> "reported",
                     verified_by |-> "poc-validator"]>>
    /\ cards = <<[hunt_id |-> 1, status |-> "tested", confidence |-> "medium"]>>
    /\ patterns = <<[source_domain |-> "a.com", finding |-> 1]>>
    /\ stats = [hunts_completed |-> 1, findings_total |-> 1]
    /\ pc = [p \in Procs |-> IF p = "w1" THEN "done" ELSE "idle"]
    /\ tgt = [p \in Procs |-> IF p = "w1" THEN "a.com" ELSE None]
    /\ hunt_id = [p \in Procs |-> IF p = "w1" THEN 1 ELSE 0]
    /\ cardsL = [p \in Procs |-> <<>>]
    /\ todo = [p \in Procs |-> <<>>]
    /\ all_findings = [p \in Procs |-> <<>>]
    /\ verified = [p \in Procs |-> <<>>]
    /\ verified_count = [p \in Procs |-> 0]
    /\ result = [p \in Procs |-> [status |-> IF p = "w1" THEN "complete" ELSE None,
                                  error |-> None]]
    /\ scan = [p \in Procs |-> IF p = "w1" THEN "done" ELSE None]
    /\ calls = [p \in Procs |-> IF p = "w1"
                  THEN <<Call("recon", 0), Call("discovery", 0), Call("scan", 0),
                         Call("card", 1), Call("validate", 1), Call("report", 1),
                         Call("summary", 0), Call("cross", 0)>>
                  ELSE <<>>]
    /\ syncSeen = [p \in Procs |-> IF p = "w1" THEN 1 ELSE -1]
    /\ outlived = [p \in Procs |-> FALSE]
    /\ lastVal = <<>>

RehuntNext ==
    \/ \E d \in Domains : Expire(d)
    \/ Hunt("w2", {"a.com"}, -1..MaxBatch)

RehuntSpec == RehuntInit /\ [][RehuntNext]_vars

\* run_swarm called again and again on four targets never hunted. The tasks
\* it dispatches wait on the orchestrate queue (position "start") and workers
\* take them in the order they were queued. A task taken tries the lock and
\* creates its Hunt record at once; a hunt may then stay in its recon phase
\* for any time, hunts leave recon in the order they entered it, and once
\* recon has returned a hunt runs to its end before any other task moves.
\* Recon succeeds, the collaborators find nothing, and no lease runs out.
Tasks == <<"t1", "t2", "t3", "t4", "t5", "t6", "t7", "t8", "t9">>

SwarmInit ==
    /\ targets = [d \in {Registered[i] : i \in DOMAIN Registered} |->
                    Target("pending", 0, 0, DefaultPriority, 0, 0)]
    /\ lock = [d \in DOMAIN targets |-> FALSE]
    /\ holder = [d \in DOMAIN targets |-> None]
    /\ hunts = <<>>
    /\ findings = <<>>
    /\ cards = <<>>
    /\ patterns = <<>>
    /\ stats = [hunts_completed |-> 0, findings_total |-> 0]
    /\ pc = [p \in {Tasks[i] : i \in DOMAIN Tasks} |-> "idle"]
    /\ tgt = [p \in DOMAIN pc |-> None]
    /\ hunt_id = [p \in DOMAIN pc |-> 0]
    /\ cardsL = [p \in DOMAIN pc |-> <<>>]
    /\ todo = [p \in DOMAIN pc |-> <<>>]
    /\ all_findings = [p \in DOMAIN pc |-> <<>>]
    /\ verified = [p \in DOMAIN pc |-> <<>>]
    /\ verified_count = [p \in DOMAIN pc |-> 0]
    /\ result = [p \in DOMAIN pc |-> [status |-> None, error |-> None]]
    /\ scan = [p \in DOMAIN pc |-> None]
    /\ calls = [p \in DOMAIN pc |-> <<>>]
    /\ syncSeen = [p \in DOMAIN pc |-> -1]
    /\ outlived = [p \in DOMAIN pc |-> FALSE]
    /\ lastVal = <<>>

\* brain.run_swarm when the clock reads now: the scheduler's batch, and
\* run_hunt.delay for every target of it that is not locked; the tasks queued
\* take the first idle places
RunSwarm(now) ==
    /\ \A d \in DOMAIN targets : now >= targets[d].last_full_hunt_at
    /\ LET batch == get_next_batch(targets, hunts, DefaultConcurrent, now)
           sent == SelectSeq(batch, LAMBDA d : ~is_target_locked(d))
           idle == SelectSeq(Tasks, LAMBDA p : pc[p] = "idle")
           place(p) == CHOOSE k \in DOMAIN idle : idle[k] = p
       IN  /\ sent # <<>>
           /\ Len(sent) <= Len(idle)
           /\ pc' = [p \in DOMAIN pc |->
                       IF pc[p] = "idle" /\ place(p) <= Len(sent)
                       THEN "start" ELSE pc[p]]
           /\ tgt' = [p \in DOMAIN pc |->
                        IF pc[p] = "idle" /\ place(p) <= Len(sent)
                        THEN sent[place(p)] ELSE tgt[p]]
    /\ UNCHANGED <<lockVars, dbVars, hunt_id, loopVars, ghostVars, result, scan,
                   calls, lastVal>>

\* the positions of a hunt other than the wait for recon
Moving == InHunt \ {"recon"}

SwarmNext ==
    \/ /\ \A q \in DOMAIN pc : ~(pc[q] \in Moving)
       /\ \/ RunSwarm(HourUnit)
          \/ \E k \in DOMAIN Tasks :
                /\ \A j \in 1..(k - 1) : pc[Tasks[j]] # "start"
                /\ AcquireLock(Tasks[k])
          \/ \E k \in DOMAIN Tasks, e \in ReconErrors :
                /\ \A j \in 1..(k - 1) : pc[Tasks[j]] # "recon"
                /\ Recon(Tasks[k], "ok", e)
    \/ \E p \in DOMAIN pc :
          \/ CreateHunt(p)
          \/ StartDiscovery(p)
          \/ GenerateHypotheses(p, 0)
          \/ StartTesting(p)
          \/ RunScan(p, 0)
          \/ ScanResult(p)
          \/ GapDiscovery(p, 0)
          \/ Reread(p)
          \/ StartValidation(p)
          \/ StartReporting(p)
          \/ Summarise(p)
          \/ Complete(p)
          \/ Finally(p)

SwarmSpec == SwarmInit /\ [][SwarmNext]_vars

\* ===================================================== the properties
Active(p) == pc[p] \in InHunt

ActiveOn(d) == {p \in Procs : Active(p) /\ tgt[p] = d}

\* C1 as stated: at most one run_hunt execution is active per target domain,
\* whatever the hunts' duration relative to the lease
C1_AtMostOneActive == \A d \in Domains : Cardinality(ActiveOn(d)) <= 1

\* C1 amended: at most one run_hunt execution is active per target domain as
\* long as no hunt on that domain was still running when its lease ran out
C1_AtMostOneActiveWithinLease ==
    \A d \in Domains :
        (\A p \in Procs : tgt[p] = d => ~outlived[p])
            => Cardinality(ActiveOn(d)) <= 1

\* one hunt on a domain is complete and has released, the next one is running
C1_Witness ==
    \E p, q \in Procs :
        /\ p # q /\ tgt[p] = tgt[q]
        /\ pc[p] = "done" /\ result[p].status = "complete"
        /\ Active(q) /\ hunt_id[q] > 0
        /\ ~outlived[p] /\ ~outlived[q]

\* C2: an acquire succeeds only if the key is absent, and then creates it; an
\* acquire made while the key exists is refused and changes nothing, so two
\* acquires on one domain never both succeed while the lease is live
C2_LockUnique ==
    [][\A p \in Procs :
         (pc[p] = "start" /\ pc'[p] # "start") =>
            IF lock[tgt[p]]
            THEN /\ result'[p].status = "skipped"
                 /\ ~(pc'[p] \in InHunt)
                 /\ lock' = lock /\ holder' = holder
            ELSE /\ pc'[p] = "locked"
                 /\ lock'[tgt[p]] /\ holder'[tgt[p]] = p]_vars

\* an acquire succeeded and a second one on the same domain was refused
C2_Witness ==
    \E p, q \in Procs :
        /\ p # q /\ result[q].status = "skipped"
        /\ tgt[p] = tgt[q]
        /\ lock[tgt[q]] /\ holder[tgt[q]] = p

\* C3: run_hunt leaves the try block only through the finally clause, after
\* which the key is gone; and a key that exists (its holder may have died) is
\* gone in the end, so that an acquire succeeds again
C3_LockFreed ==
    /\ [][\A p \in Procs :
            (pc[p] \in InHunt /\ ~(pc'[p] \in InHunt)) =>
                \/ pc'[p] = "dead"
                \/ pc[p] = "finally" /\ pc'[p] = "done" /\ set_target_lock(tgt[p])']_vars
    /\ \A d \in Domains : lock[d] ~> set_target_lock(d)

\* a hunt ended on an exception, a timeout or a recon failure and its lock is free
C3_Witness ==
    \E p \in Procs :
        /\ pc[p] = "done" /\ hunt_id[p] > 0
        /\ result[p].status \in {"failed", "timeout", "exception"}
        /\ ~lock[tgt[p]]

\* C4: a Finding's status only moves unverified -> verified | false_positive
\* and verified -> reported
C4_StatusMonotone ==
    [][\A f \in 1..Len(findings) :
         LET a == findings[f].status
             b == findings'[f].status
         IN  \/ a = b
             \/ a = "unverified" /\ b \in {"verified", "false_positive"}
             \/ a = "verified" /\ b = "reported"]_vars

\* the collaborator each stage calls
StageProbe == <<"nslookup", "head", "fetch", "llm">>

\* C5: a step recorded as FAIL is the last step recorded, and no later
\* stage's collaborator was called
C5_FailFast ==
    lastVal # <<>> =>
        LET st == lastVal[1].run.steps IN
        \A k \in 1..Len(st) :
            st[k].result = "FAIL" =>
                /\ Len(st) = k
                /\ \A j \in (k + 1)..4 : ~(StageProbe[j] \in lastVal[1].run.probes)

\* C15: the host resolves and answers, the finding URL returns 404, 403 or
\* 401 (with or without a WAF signature in the headers): the finding ends
\* false_positive, the reason names the endpoint stage and the status code,
\* and the judgment collaborator is not called
C15_BlockedEndpoint ==
    lastVal # <<>> =>
        LET a == lastVal[1].answers
            r == lastVal[1].run
        IN  (a.dns /\ a.http /\ a.code \in {"404", "403", "401"}) =>
                /\ findings[lastVal[1].finding].status = "false_positive"
                /\ r.status = "FALSE_POSITIVE"
                /\ r.reason = <<"Endpoint returns HTTP", a.code>>
                /\ ~("llm" \in r.probes)

\* a finding behind a WAF banner whose URL returns 403 was rejected at the
\* endpoint stage
C15_Witness ==
    /\ lastVal # <<>>
    /\ lastVal[1].answers.dns /\ lastVal[1].answers.http
    /\ lastVal[1].answers.waf /\ lastVal[1].answers.code = "403"
    /\ lastVal[1].run.reason = <<"Endpoint returns HTTP", "403">>
    /\ findings[lastVal[1].finding].status = "false_positive"

\* C16: validate_finding on an existing finding ends with one terminal
\* verdict recorded with verified_by: verified (CONFIRMED returned) exactly
\* when the judgment stage was reached and its verdict is CONFIRMED,
\* false_positive (FALSE_POSITIVE returned with a reason) otherwise
C16_OneVerdict ==
    lastVal # <<>> =>
        LET a == lastVal[1].answers
            r == lastVal[1].run
            f == findings[lastVal[1].finding]
            judged == a.dns /\ a.http /\ ~(a.code \in {"404", "403", "401"})
        IN  /\ f.verified_by = "poc-validator"
            /\ IF judged /\ a.verdict = "CONFIRMED"
                 THEN f.status = "verified" /\ r.status = "CONFIRMED"
                 ELSE /\ f.status = "false_positive"
                      /\ r.status = "FALSE_POSITIVE"
                      /\ r.reason # <<>>

\* C17: a finding whose captured response is empty, blocked (403 or a WAF
\* signature detected) or unauthorized (401) ends false_positive, whatever
\* the judgment collaborator answers
C17_BlockedNeverVerified ==
    lastVal # <<>> =>
        LET a == lastVal[1].answers IN
        (/\ lastVal[1].run.status # "raise"
         /\ a.dns /\ a.http
         /\ (a.empty \/ a.waf \/ a.code \in {"403", "401"})) =>
            findings[lastVal[1].finding].status = "false_positive"

\* C18: batch_validate runs the pipeline on the first min(n, 10) ids of its
\* list, once for each position and in list order; a finding whose id is not
\* among them is left as it was; the value returned has total = the number
\* processed = min(n, 10), and confirmed + false_positive = total when every
\* processed id is the id of a finding
C18_BatchCapped ==
    (lastVal # <<>> /\ lastVal[1].op = "batch_validate") =>
        LET b == lastVal[1]
            k == Min(Len(b.ids), BatchCap)
            ran == b.results
        IN  /\ Len(ran) <= k
            /\ \A i \in 1..Len(ran) : ran[i].id = b.ids[i]
            /\ \A i \in 1..Len(ran) :
                  b.ids[i] \in DOMAIN findings =>
                      findings[b.ids[i]].status \in {"verified", "false_positive"}
            /\ \A f \in DOMAIN findings :
                  ~(\E i \in 1..Len(ran) : b.ids[i] = f) =>
                      findings[f] = [hunt_id |-> 1, status |-> "unverified",
                                     verified_by |-> None]
            /\ b.state = "returned" =>
                  /\ Len(ran) = k
                  /\ b.ret[1].total = k
                  /\ (\A i \in 1..k : b.ids[i] \in DOMAIN findings) =>
                        b.ret[1].confirmed + b.ret[1].false_positive = b.ret[1].total

\* a list of more than ten ids was handed in: ten were processed, some
\* confirmed and some rejected, and the eleventh finding is still unverified
C18_Witness ==
    /\ lastVal # <<>> /\ lastVal[1].op = "batch_validate"
    /\ lastVal[1].state = "returned"
    /\ Len(lastVal[1].ids) > BatchCap
    /\ lastVal[1].ret[1].total = BatchCap
    /\ lastVal[1].ret[1].confirmed > 0 /\ lastVal[1].ret[1].false_positive > 0
    /\ findings[lastVal[1].ids[BatchCap + 1]].status = "unverified"

\* the patterns of the log that come from another target and have a type
Transferable ==
    {i \in DOMAIN patterns :
        /\ patterns[i].source_domain # lastVal[1].target_domain
        /\ patterns[i].finding_type # NoType}

\* the earliest of them that has the type ty
Earliest(ty) ==
    CHOOSE i \in Transferable :
        /\ patterns[i].finding_type = ty
        /\ \A j \in Transferable : patterns[j].finding_type = ty => i <= j

\* the places of the medium-confidence entries in the list returned
Mediums ==
    {k \in DOMAIN lastVal[1].hypotheses :
        lastVal[1].hypotheses[k].confidence = "medium"}

\* C19 as stated: every distinct non-empty finding type among the patterns of
\* other targets has exactly one direct-transfer hypothesis, of confidence
\* medium, citing the source of the earliest such pattern, and there are no
\* other direct-transfer hypotheses
C19_OnePerType ==
    (lastVal # <<>> /\ lastVal[1].op = "get_transfer_hypotheses") =>
        LET hyp == lastVal[1].hypotheses IN
        /\ \A i \in Transferable :
              Cardinality({k \in Mediums :
                  hyp[k].finding_type = patterns[i].finding_type}) = 1
        /\ \A k \in Mediums :
              \E i \in Transferable :
                  /\ hyp[k].finding_type = patterns[i].finding_type
                  /\ hyp[k].source_domain = patterns[Earliest(hyp[k].finding_type)].source_domain

\* C19 amended: the same for the first HypothesisCap distinct types in log
\* order; a type first seen after that many others has no hypothesis
C19_OnePerTypeCapped ==
    (lastVal # <<>> /\ lastVal[1].op = "get_transfer_hypotheses") =>
        LET hyp == lastVal[1].hypotheses
            types == {patterns[i].finding_type : i \in Transferable}
            before(ty) == {u \in types : Earliest(u) < Earliest(ty)}
        IN  /\ \A ty \in types :
                  Cardinality({k \in Mediums : hyp[k].finding_type = ty})
                      = IF Cardinality(before(ty)) < HypothesisCap THEN 1 ELSE 0
            /\ \A k \in Mediums :
                  /\ hyp[k].finding_type \in types
                  /\ hyp[k].source_domain
                        = patterns[Earliest(hyp[k].finding_type)].source_domain

\* a type found on a.com, then on c.com, and another found on b.com itself:
\* for b.com there is one direct-transfer hypothesis, citing a.com
C19_Witness ==
    /\ lastVal # <<>> /\ lastVal[1].op = "get_transfer_hypotheses"
    /\ patterns = <<Pattern("a.com", 1), Pattern("c.com", 1), Pattern("b.com", 2)>>
    /\ lastVal[1].target_domain = "b.com"
    /\ Cardinality(Mediums) = 1
    /\ \A k \in Mediums : lastVal[1].hypotheses[k].source_domain = "a.com"

\* C20: the list has at most 15 entries, every medium-confidence entry comes
\* before every low-confidence one, and what is cut off is the tail: all the
\* direct-transfer hypotheses are kept as far as 15 go, and the tech-stack
\* hypotheses kept are the first ones in dictionary order
C20_CappedInOrder ==
    (lastVal # <<>> /\ lastVal[1].op = "get_transfer_hypotheses") =>
        LET hyp == lastVal[1].hypotheses
            types == {patterns[i].finding_type : i \in Transferable}
            stack == lastVal[1].tech_stack
            hits == SelectSeq(TRANSFERABLE_PATTERNS,
                              LAMBDA e : \E i \in DOMAIN stack : e.indicator \in stack[i])
            kept == Min(Cardinality(types), HypothesisCap)
        IN  /\ Len(hyp) <= HypothesisCap
            /\ \A i, j \in DOMAIN hyp :
                  (hyp[i].confidence = "medium" /\ hyp[j].confidence = "low") => i < j
            /\ Cardinality(Mediums) = kept
            /\ Len(hyp) = kept + Min(Len(hits), HypothesisCap - kept)
            /\ \A k \in (kept + 1)..Len(hyp) : hyp[k].test = hits[k - kept].name

\* nine types from other targets and a stack every indicator occurs in:
\* sixteen hypotheses, of which the last tech-stack one is cut off
C20_Witness ==
    /\ lastVal # <<>> /\ lastVal[1].op = "get_transfer_hypotheses"
    /\ Len(lastVal[1].hypotheses) = HypothesisCap
    /\ Cardinality(Mediums) = HypothesisCap + 1 - Len(TRANSFERABLE_PATTERNS)
    /\ lastVal[1].hypotheses[HypothesisCap].test = "admin_panel"

\* C6: gap-triggered discovery is called at most once per hunt, only when the
\* sync phase read zero findings, and always when it did
C6_GapOnce ==
    \A p \in Procs :
        /\ Count(p, "gap") <= 1
        /\ Count(p, "gap") = 1 => syncSeen[p] = 0
        /\ (syncSeen[p] = 0 /\ ~(pc[p] \in {"gap", "dead"})) => Count(p, "gap") = 1

\* the second wave found nothing either, the gap discovery ran once and the
\* hunt is complete
C6_Witness ==
    \E p \in Procs :
        /\ result[p].status = "complete"
        /\ Count(p, "gap") = 1
        /\ Count(p, "card") = 2
        /\ get_by_hunt(findings, hunt_id[p]) = <<>>

\* the order of the values the phase column takes
PhaseRank(ph) ==
    CASE ph = "recon" -> 0
      [] ph = "recon_complete" -> 1
      [] ph = "discovery" -> 2
      [] ph = "discovery_complete" -> 3
      [] ph = "testing" -> 4
      [] ph = "sync" -> 5
      [] ph = "validation" -> 6
      [] ph = "reporting" -> 7

\* C7: a Hunt starts in phase recon, no write moves its phase backward, and
\* a terminal Hunt is not written again
C7_PhaseForward ==
    [][/\ Len(hunts') >= Len(hunts)
       /\ \A h \in 1..Len(hunts) :
            /\ PhaseRank(hunts'[h].phase) >= PhaseRank(hunts[h].phase)
            /\ hunts[h].status \in {"complete", "failed"} => hunts'[h] = hunts[h]
       /\ \A h \in (Len(hunts) + 1)..Len(hunts') : hunts'[h].phase = "recon"]_vars

\* a hunt went through the second wave and is complete in phase reporting
C7_Witness ==
    \E p \in Procs :
        /\ hunt_id[p] > 0
        /\ hunts[hunt_id[p]].status = "complete"
        /\ hunts[hunt_id[p]].phase = "reporting"
        /\ Count(p, "gap") = 1

\* C8: a hunt whose scan wait timed out has a Hunt record with status failed
\* and the error recorded, and ran no later phase
C8_TimeoutFails ==
    \A p \in Procs :
        result[p].status = "timeout" =>
            /\ hunts[hunt_id[p]].status = "failed"
            /\ hunts[hunt_id[p]].error # None
            /\ Count(p, "validate") + Count(p, "report") + Count(p, "summary") = 0

\* C9: a hunt whose recon reported an error has a Hunt record with status
\* failed, that error and phase recon, has called recon once and nothing else,
\* and is over
C9_ReconFailure ==
    \A p \in Procs :
        result[p].status = "failed" =>
            /\ hunts[hunt_id[p]].status = "failed"
            /\ result[p].error \in ReconErrors
            /\ hunts[hunt_id[p]].error = result[p].error
            /\ hunts[hunt_id[p]].phase = "recon"
            /\ calls[p] = <<Call("recon", 0)>>
            /\ scan[p] = None
            /\ pc[p] \in {"finally", "done", "dead"}

\* a hunt returned failed and released its lock
C9_Witness ==
    \E p \in Procs :
        /\ result[p].status = "failed" /\ pc[p] = "done"
        /\ hunts[hunt_id[p]].error = "stderr2"

\* C10: an invocation refused the lock returns skipped at once: it has no
\* Hunt record, has called no collaborator, and the refusal leaves the lock,
\* its holder and the hunts table as they were
C10_Skipped ==
    [][\A p \in Procs :
         result'[p].status = "skipped" =>
            /\ pc'[p] = "done"
            /\ hunt_id'[p] = 0 /\ calls'[p] = <<>> /\ scan'[p] = None
            /\ result[p].status # "skipped" =>
                  (lock[tgt[p]] /\ lock' = lock /\ holder' = holder /\ hunts' = hunts)]_vars

\* an invocation was skipped while the holder's hunt goes on under its lock
C10_Witness ==
    \E p, q \in Procs :
        /\ result[q].status = "skipped" /\ pc[q] = "done"
        /\ tgt[p] = tgt[q] /\ Active(p) /\ hunt_id[p] > 0
        /\ holder[tgt[q]] = p /\ lock[tgt[q]]
        /\ Len(hunts) = 1

\* C13 as stated: score_target is strictly increasing in the bounty midpoint,
\* in staleness below the cap, and in the priority, the rest held fixed
C13_ScoreStrict ==
    lastVal # <<>> =>
        LET t == lastVal[1].target
            now == lastVal[1].now
            s == lastVal[1].score
        IN  /\ \A bmin \in Bounties, bmax \in Bounties :
                  bmin + bmax > t.bounty_min + t.bounty_max =>
                      score_target([t EXCEPT !.bounty_min = bmin,
                                             !.bounty_max = bmax], now) > s
            /\ \A later \in Clock :
                  (/\ t.last_full_hunt_at # 0
                   /\ later > now
                   /\ later - t.last_full_hunt_at < StalenessCap * HoursPerDay) =>
                      score_target(t, later) > s
            /\ \A prio \in Priorities :
                  prio > t.priority => score_target([t EXCEPT !.priority = prio], now) > s

\* C13 amended: score_target never decreases when the bounty midpoint, the
\* staleness or the priority grows, the rest held fixed
C13_ScoreMonotone ==
    lastVal # <<>> =>
        LET t == lastVal[1].target
            now == lastVal[1].now
            s == lastVal[1].score
        IN  /\ \A bmin \in Bounties, bmax \in Bounties :
                  bmin + bmax >= t.bounty_min + t.bounty_max =>
                      score_target([t EXCEPT !.bounty_min = bmin,
                                             !.bounty_max = bmax], now) >= s
            /\ \A later \in Clock :
                  later >= now => score_target(t, later) >= s
            /\ \A prio \in Priorities :
                  prio >= t.priority => score_target([t EXCEPT !.priority = prio], now) >= s

\* a target above the bounty floor, hunted some time ago, was scored higher
\* than it would be with no bounty and than it would be at the lowest priority
C13_Witness ==
    /\ lastVal # <<>>
    /\ lastVal[1].target.last_full_hunt_at # 0
    /\ lastVal[1].score >
          score_target([lastVal[1].target EXCEPT !.bounty_min = 0, !.bounty_max = 0],
                       lastVal[1].now)
    /\ lastVal[1].score >
          score_target([lastVal[1].target EXCEPT !.priority = 1], lastVal[1].now)

\* C14: of two targets that differ only in last_full_hunt_at, the one never
\* hunted scores at least as high as the one hunted at any past time
C14_NeverHuntedFirst ==
    lastVal # <<>> =>
        LET t == lastVal[1].target
            now == lastVal[1].now
        IN  \A stamp \in HuntStamps :
              (stamp # 0 /\ stamp <= now) =>
                  score_target([t EXCEPT !.last_full_hunt_at = 0], now)
                      >= score_target([t EXCEPT !.last_full_hunt_at = stamp], now)

\* a hunted target was scored strictly below what it scores never hunted
C14_Witness ==
    /\ lastVal # <<>>
    /\ lastVal[1].target.last_full_hunt_at # 0
    /\ lastVal[1].score <
          score_target([lastVal[1].target EXCEPT !.last_full_hunt_at = 0],
                       lastVal[1].now)

\* C11: get_next_batch never returns a disabled target nor a target whose
\* lock is held at the time of the call
C11_BatchExcludes ==
    \A max_concurrent \in 0..DefaultConcurrent, now \in Clock :
        LET batch == get_next_batch(targets, hunts, max_concurrent, now) IN
        \A i \in DOMAIN batch :
            /\ targets[batch[i]].status # "disabled"
            /\ ~is_target_locked(batch[i])

\* the targets that are not disabled and have no running hunt
Eligible == {d \in Domains :
                /\ targets[d].status # "disabled"
                /\ \A h \in DOMAIN hunts :
                      hunts[h].status = "running" => hunts[h].target # d}

\* the slots left: max_concurrent minus the number of running hunts
FreeSlots(max_concurrent) ==
    max_concurrent - Cardinality({h \in DOMAIN hunts : hunts[h].status = "running"})

\* C12: the batch holds min(number eligible, free slots) distinct eligible
\* targets (none if no slot is free), in descending score order, and each
\* scores at least as high as every eligible target left out
C12_BatchTopSlots ==
    lastVal # <<>> =>
        LET batch == lastVal[1].batch
            now == lastVal[1].now
            slots == FreeSlots(lastVal[1].max_concurrent)
            score(d) == score_target(targets[d], now)
            chosen == {batch[i] : i \in DOMAIN batch}
        IN  /\ Len(batch) = IF slots <= 0 THEN 0 ELSE Min(Cardinality(Eligible), slots)
            /\ Cardinality(chosen) = Len(batch)
            /\ chosen \subseteq Eligible
            /\ \A i, j \in DOMAIN batch : i < j => score(batch[i]) >= score(batch[j])
            /\ \A i \in DOMAIN batch, d \in Eligible \ chosen : score(batch[i]) >= score(d)

\* two targets were eligible and one slot free: the batch is the one that
\* scores higher, though it is the second in the listing
C12_Witness ==
    /\ lastVal # <<>>
    /\ Eligible = Domains
    /\ FreeSlots(lastVal[1].max_concurrent) = 1
    /\ lastVal[1].batch = <<"b.com">>
    /\ score_target(targets["b.com"], lastVal[1].now)
          > score_target(targets["a.com"], lastVal[1].now)

\* C21: the pattern log is append-only: in every step the log before the
\* step is a prefix of the log after it
C21_AppendOnly ==
    [][/\ Len(patterns') >= Len(patterns)
       /\ SubSeq(patterns', 1, Len(patterns)) = patterns]_vars

\* the second hunt of a.com completed and its verified finding was recorded
\* after the pattern of the first hunt
C21_Witness ==
    /\ result["w2"].status = "complete"
    /\ Len(patterns) = 2
    /\ patterns[1] = [source_domain |-> "a.com", finding |-> 1]
    /\ patterns[2] = [source_domain |-> "a.com", finding |-> 2]

\* C22: when a hunt completes, total_findings becomes its value before the
\* hunt plus the number of findings verified in this hunt
C22_Cumulative ==
    [][\A p \in Procs :
          (pc[p] = "complete" /\ pc'[p] = "finally") =>
              targets'[tgt[p]].total_findings
                  = targets[tgt[p]].total_findings + Len(verified[p])]_vars

\* C23: after each phase of a hunt a checkpoint of that phase is written
\* before the next phase starts: once the testing phase is over (the hunt is
\* in sync, validation or reporting, or complete) the checkpoint on the Hunt
\* record is no longer the one of recon or of discovery
C23_CheckpointPerPhase ==
    \A p \in Procs :
        pc[p] \in {"gap", "cards2", "validation", "validating", "reports", "complete"} =>
            ~(hunts[hunt_id[p]].checkpoint
                 \in {None, "recon_complete", "discovery_complete"})

\* the places in the call log of p where the collaborator what was called
CallsOf(p, what) == {i \in DOMAIN calls[p] : calls[p][i].what = what}

\* C24: in a hunt that completed, generate_report was called once for each
\* finding of the hunt that ended verified and for no other finding, every
\* such call came before the one generate_hunt_summary call, which came
\* before the one cross-target update; the update appended one pattern for
\* each verified finding and none for any other
C24_ReportingOrder ==
    \A p \in Procs :
        result[p].status = "complete" =>
            LET V == {f \in DOMAIN findings :
                         /\ findings[f].hunt_id = hunt_id[p]
                         /\ findings[f].status \in {"verified", "reported"}}
                c == calls[p]
            IN  /\ \A f \in V : Cardinality({i \in CallsOf(p, "report") : c[i].arg = f}) = 1
                /\ \A i \in CallsOf(p, "report") : c[i].arg \in V
                /\ Cardinality(CallsOf(p, "report")) = hunts[hunt_id[p]].findings_count
                /\ Cardinality(CallsOf(p, "summary")) = 1
                /\ Cardinality(CallsOf(p, "cross")) = 1
                /\ \A i \in CallsOf(p, "report"), j \in CallsOf(p, "summary") : i < j
                /\ \A i \in CallsOf(p, "summary"), j \in CallsOf(p, "cross") : i < j
                /\ \A f \in V :
                      Cardinality({i \in DOMAIN patterns : patterns[i].finding = f}) = 1
                /\ \A i \in DOMAIN patterns :
                      findings[patterns[i].finding].hunt_id = hunt_id[p] =>
                          patterns[i].finding \in V

\* a hunt completed with one finding reported and one rejected: one report,
\* one pattern
C24_Witness ==
    \E p \in Procs :
        /\ result[p].status = "complete"
        /\ \E f, g \in DOMAIN findings :
              /\ findings[f].hunt_id = hunt_id[p] /\ findings[f].status = "reported"
              /\ findings[g].hunt_id = hunt_id[p] /\ findings[g].status = "false_positive"
        /\ Cardinality(CallsOf(p, "report")) = 1
        /\ Len(patterns) = 1

\* C25: the number of hunts running at the same time (Hunt records with
\* status running whose run_hunt invocation is executing) never exceeds the
\* ceiling of the scheduler run_swarm uses
C25_Ceiling ==
    Cardinality({p \in DOMAIN pc :
                    /\ pc[p] \in InHunt /\ hunt_id[p] # 0
                    /\ hunts[hunt_id[p]].status = "running"}) <= DefaultConcurrent

\* ------------------------------------------------- the target registry
\* INSERT OR REPLACE: the row of a registered domain is written again, with
\* a new id and the columns given
TargetDB_add_replace(tt, d, prio) ==
    LET id == Len(SelectSeq(Registered, LAMBDA x : x \in DOMAIN tt)) + 1
    IN  [table |-> [x \in DOMAIN tt \cup {d} |->
                      IF x = d
                      THEN Target("pending", 0, 0, prio, 0, 0) @@ [id |-> id]
                      ELSE tt[x]],
         id |-> id]

\* TargetDB.add: INSERT OR IGNORE on the UNIQUE domain column. The id column
\* is AUTOINCREMENT and no row is ever deleted, so a new row gets the number
\* of rows plus one. cur.lastrowid of the connection opened for this call is
\* the new id after an insert and 0 after an ignored one, and then the id is
\* read back from the row of the domain
TargetDB_add(tt, d, prio) ==
    LET inserted == d \notin DOMAIN tt
        id == Len(SelectSeq(Registered, LAMBDA x : x \in DOMAIN tt)) + 1
        lastrowid == IF inserted THEN id ELSE 0
        table == IF inserted
                 THEN [x \in DOMAIN tt \cup {d} |->
                         IF x = d
                         THEN Target("pending", 0, 0, prio, 0, 0) @@ [id |-> id]
                         ELSE tt[x]]
                 ELSE tt
    IN  [table |-> table,
         id |-> IF lastrowid # 0 THEN lastrowid ELSE table[d].id]

\* DELETE FROM targets: the row is gone
remove_target_delete(tt, d) == [x \in DOMAIN tt \ {d} |-> tt[x]]

\* app.remove_target: TargetDB.update(domain, status="disabled"), an UPDATE
\* ... WHERE domain=? that touches no row when the domain is not registered
remove_target(tt, d) ==
    IF d \in DOMAIN tt THEN [tt EXCEPT ![d].status = "disabled"] ELSE tt

\* POST /api/targets
AddTarget(d, prio) ==
    /\ targets' = TargetDB_add(targets, d, prio).table
    /\ lastVal' = <<[op |-> "add", domain |-> d, priority |-> prio,
                     existed |-> d \in DOMAIN targets,
                     id |-> TargetDB_add(targets, d, prio).id]>>
    /\ UNCHANGED <<lockVars, hunts, findings, cards, patterns, stats, pc, locVars,
                   result, scan, calls>>

\* DELETE /api/targets/{domain}
RemoveTarget(d) ==
    /\ targets' = remove_target(targets, d)
    /\ lastVal' = <<[op |-> "remove", domain |-> d, priority |-> 0,
                     existed |-> d \in DOMAIN targets, id |-> 0]>>
    /\ UNCHANGED <<lockVars, hunts, findings, cards, patterns, stats, pc, locVars,
                   result, scan, calls>>

\* the priorities a target is added with: the default and the highest
AddPriorities == {DefaultPriority, MaxPriority}

\* the registry starts empty; targets are added and removed through the API
\* while one run_hunt invocation, dispatched by POST /api/hunts for a
\* registered domain only, goes through its phases
RegistryInit == Fresh(<<>>, <<>>)

RegistryNext ==
    \/ \E d \in Domains, prio \in AddPriorities : AddTarget(d, prio)
    \/ \E d \in Domains : RemoveTarget(d)
    \/ \E d \in Domains : Expire(d)
    \/ Hunt("w1", DOMAIN targets \cap {"a.com"}, -1..MaxBatch)

RegistrySpec == RegistryInit /\ [][RegistryNext]_vars

\* C26: TargetDB.add on a registered domain returns the id of the existing
\* target and leaves the table as it is (no second record, no field
\* changed); the ids of the registered domains stay distinct
C26_AddIdempotent ==
    [][/\ \A d \in Domains :
             (/\ lastVal' # lastVal
              /\ lastVal'[1].op = "add" /\ lastVal'[1].domain = d
              /\ d \in DOMAIN targets)
             => /\ targets' = targets
                /\ lastVal'[1].id = targets[d].id
       /\ \A d, e \in DOMAIN targets' :
             targets'[d].id = targets'[e].id => d = e]_vars

\* a registered target is added again with another priority, after a hunt
\* has written to its row
C26_Witness ==
    /\ lastVal # <<>>
    /\ lastVal[1].op = "add" /\ lastVal[1].existed
    /\ lastVal[1].domain \in DOMAIN targets
    /\ targets[lastVal[1].domain].id = lastVal[1].id
    /\ targets[lastVal[1].domain].priority # lastVal[1].priority
    /\ targets[lastVal[1].domain].last_recon_at # 0
    /\ Cardinality(DOMAIN targets) = 2

\* C28: no step of the API or of a hunt takes a target away: the registered
\* domains only grow and keep their ids, and remove_target changes nothing
\* but the status of the target, which becomes disabled, leaving its other
\* columns, the other targets, the hunts and the findings as they are
C28_NeverRemoved ==
    [][/\ DOMAIN targets \subseteq DOMAIN targets'
       /\ \A d \in DOMAIN targets : targets'[d].id = targets[d].id
       /\ \A d \in DOMAIN targets :
             (/\ lastVal' # lastVal
              /\ lastVal'[1].op = "remove" /\ lastVal'[1].domain = d)
             => /\ targets'[d].status = "disabled"
                /\ \A c \in DOMAIN targets[d] \ {"status"} :
                      targets'[d][c] = targets[d][c]
                /\ \A e \in DOMAIN targets \ {d} : targets'[e] = targets[e]
                /\ hunts' = hunts /\ findings' = findings]_vars

\* a target with a completed hunt behind it has just been removed: the row,
\* its history and its hunt record are still there
C28_Witness ==
    /\ lastVal # <<>>
    /\ lastVal[1].op = "remove" /\ lastVal[1].existed
    /\ lastVal[1].domain \in DOMAIN targets
    /\ targets[lastVal[1].domain].status = "disabled"
    /\ targets[lastVal[1].domain].last_full_hunt_at # 0
    /\ \E h \in DOMAIN hunts :
          hunts[h].target = lastVal[1].domain /\ hunts[h].status = "complete"

\* C27: release_target_lock is idempotent. The step that releases the lock
\* of a domain leaves the domain unlocked and the other locks alone; when the
\* lock is not held (released already, or run out) the step changes no lock;
\* and a lock that is not held becomes held by a successful acquisition only
C27_ReleaseIdempotent ==
    [][/\ \A p \in Procs :
             (pc[p] = "finally" /\ pc'[p] = "done")
             => /\ ~is_target_locked(tgt[p])'
                /\ \A d \in Domains \ {tgt[p]} : lock'[d] = lock[d]
                /\ ~is_target_locked(tgt[p]) => lock' = lock
       /\ \A d \in Domains :
             (~lock[d] /\ lock'[d])
             => \E p \in Procs :
                   pc[p] = "start" /\ pc'[p] = "locked" /\ tgt[p] = d]_vars

\* two invocations on one domain have both run their finally clause, the
\* second of them after the lease of the first ran out: the lock was
\* released twice and is free
C27_Witness ==
    /\ \A p \in Procs : pc[p] = "done" /\ result[p].status \notin {None, "skipped"}
    /\ tgt["w1"] = tgt["w2"]
    /\ outlived["w1"]
    /\ ~is_target_locked(tgt["w1"])

\* the findings of the hunt of invocation p
OfHunt(p) == {f \in DOMAIN findings : findings[f].hunt_id = hunt_id[p]}

\* C29: when the validation phase of a hunt hands over to reporting, every
\* finding of the hunt has been passed to validate_finding exactly once and
\* none is unverified; a validate_finding call that rejects its finding
\* (false_positive) leaves the hunt in the loop, on the next finding, with no
\* result set; and a hunt that completes leaves no finding unverified
C29_ValidatesAll ==
    [][\A p \in Procs :
          /\ (pc[p] = "validating" /\ pc'[p] = "reports")
             => \A f \in OfHunt(p) :
                   /\ findings[f].status # "unverified"
                   /\ Cardinality({i \in CallsOf(p, "validate") :
                                      calls[p][i].arg = f}) = 1
          /\ (/\ pc[p] = "validating" /\ todo[p] # <<>>
              /\ Len(calls'[p]) > Len(calls[p])
              /\ findings'[Head(todo[p])].status = "false_positive")
             => /\ pc'[p] = "validating"
                /\ result'[p] = result[p]
                /\ todo'[p] = Tail(todo[p])
          /\ result'[p].status = "complete"
             => \A f \in DOMAIN findings' :
                   findings'[f].hunt_id = hunt_id'[p] =>
                       findings'[f].status # "unverified"]_vars

\* a hunt completed although its first finding was rejected: the second was
\* validated after it, confirmed and reported
C29_Witness ==
    \E p \in Procs :
        /\ result[p].status = "complete"
        /\ \E i, j \in CallsOf(p, "validate") :
              /\ i < j
              /\ findings[calls[p][i].arg].status = "false_positive"
              /\ findings[calls[p][j].arg].status = "reported"

\* ------------------------------------ validate_finding and the severity
Severities == {"high", "medium", "low"}

\* the key is missing from the LLM's reply
Absent == "absent"

\* what the reply holds under severity_adjustment and adjusted_severity
Adjustments == {"none", "upgrade", "downgrade", Absent}
AdjustedSeverities == Severities \cup {Absent}

\* lines 104-111: the severity a finding has after validate_finding returned
\* with status st: on CONFIRMED, verdict.get("severity_adjustment") != "none"
\* (a missing key reads as the value None of Python, which differs from the
\* string) writes verdict.get("adjusted_severity", finding["severity"]);
\* _fail_finding does not write the column
adjust_severity(sev, st, adj, adjusted) ==
    IF st = "CONFIRMED" /\ adj # "none"
    THEN IF adjusted # Absent THEN adjusted ELSE sev
    ELSE sev

\* FindingDB.create on the hunt under way, with the severity given
RecordFinding(sev) ==
    /\ Len(findings) < MaxFindings
    /\ findings' = Append(findings, [hunt_id |-> 1, status |-> "unverified",
                                     verified_by |-> None, severity |-> sev])
    /\ UNCHANGED <<lockVars, targets, hunts, cards, patterns, stats, pc, locVars,
                   result, scan, calls, lastVal>>

\* the task validate_finding on finding f, its run leaving r behind and the
\* verdict holding adj and adjusted; what it was given and what it wrote are
\* kept for inspection
ValidateSeverity(f, r, adj, adjusted) ==
    /\ f \in 1..Len(findings)
    /\ findings' = [findings EXCEPT
                      ![f].status = r.write,
                      ![f].verified_by = "poc-validator",
                      ![f].severity = adjust_severity(@, r.status, adj, adjusted)]
    /\ lastVal' = <<[op |-> "validate", finding |-> f, status |-> r.status,
                     severity_adjustment |-> adj, adjusted_severity |-> adjusted,
                     before |-> findings[f].severity,
                     after |-> adjust_severity(findings[f].severity, r.status,
                                               adj, adjusted)]>>
    /\ UNCHANGED <<lockVars, targets, hunts, cards, patterns, stats, pc, locVars,
                   result, scan, calls>>

\* a hunt on a.com is under way; findings are recorded and validated
SeverityInit ==
    Fresh([d \in Domains |-> Target("pending", 0, 0, DefaultPriority, 0, 0)],
          <<[target |-> "a.com", hunt_type |-> "full", status |-> "running",
             phase |-> "testing", error |-> None, checkpoint |-> None,
             findings_count |-> 0]>>)

SeverityNext ==
    \/ \E sev \in Severities : RecordFinding(sev)
    \/ \E f \in 1..MaxFindings, r \in ValidationOutcomes, adj \in Adjustments,
          adjusted \in AdjustedSeverities : ValidateSeverity(f, r, adj, adjusted)

SeveritySpec == SeverityInit /\ [][SeverityNext]_vars

\* C30: validate_finding changes the severity of a finding only when the
\* verdict is CONFIRMED and severity_adjustment is upgrade or downgrade
C30_SeverityOnlyOnAdjustment ==
    (lastVal # <<>> /\ lastVal[1].after # lastVal[1].before)
    => /\ lastVal[1].status = "CONFIRMED"
       /\ lastVal[1].severity_adjustment \in {"upgrade", "downgrade"}

\* the severity is left alone on every rejection and whenever the verdict
\* says "none"
C30_KeptOnRejection ==
    (lastVal # <<>> /\ (lastVal[1].status # "CONFIRMED"
                        \/ lastVal[1].severity_adjustment = "none"))
    => lastVal[1].after = lastVal[1].before

\* a rejection whose verdict recommended another severity
C30_Witness ==
    /\ lastVal # <<>>
    /\ lastVal[1].status = "FALSE_POSITIVE"
    /\ lastVal[1].severity_adjustment = "upgrade"
    /\ lastVal[1].adjusted_severity \notin {Absent, lastVal[1].before}

\* C31: the second wave tests exactly the cards gap-triggered discovery has
\* just stored (the list read after it holds each of them once and no card
\* that was in the table before), and no card is submitted to the
\* exploitation collaborator more than once by a hunt
C31_SecondWaveNewCards ==
    [][\A p \in Procs :
          /\ (pc[p] = "gap" /\ pc'[p] = "cards2")
             => /\ {cardsL'[p][i] : i \in DOMAIN cardsL'[p]}
                      = (Len(cards) + 1)..Len(cards')
                /\ Len(cardsL'[p]) = Len(cards') - Len(cards)
          /\ \A c \in DOMAIN cards' :
                Cardinality({i \in DOMAIN calls'[p] :
                                calls'[p][i] = Call("card", c)}) <= 1]_vars

\* a hunt tested a card in the first wave, found nothing, and tested the card
\* of the second wave after gap-triggered discovery
C31_Witness ==
    \E p \in Procs :
        \E i, g, j \in DOMAIN calls[p] :
            /\ i < g /\ g < j
            /\ calls[p][i].what = "card"
            /\ calls[p][g].what = "gap"
            /\ calls[p][j].what = "card"
            /\ calls[p][i].arg # calls[p][j].arg
            /\ cards[calls[p][i].arg].status = "tested"
            /\ cards[calls[p][j].arg].status = "tested"

\* C32: the step that enters the sync phase is taken with the scan returned
\* and every card of the hunt submitted for testing, and the findings it reads are all the
\* findings of the hunt; from then on the findings of the hunt grow only by
\* a test of the second wave
C32_SyncAfterBothTracks ==
    [][\A p \in Procs :
          /\ (pc[p] = "cards" /\ pc'[p] \in {"gap", "validation"})
             => /\ scan[p] = "done"
                /\ \A c \in DOMAIN cards :
                      cards[c].hunt_id = hunt_id[p] =>
                          \E i \in DOMAIN calls[p] : calls[p][i] = Call("card", c)
                /\ all_findings'[p] = get_by_hunt(findings', hunt_id[p])
                /\ pc'[p] = "gap" <=> get_by_hunt(findings', hunt_id[p]) = <<>>
          /\ (/\ syncSeen[p] # -1
              /\ Len(get_by_hunt(findings', hunt_id[p]))
                    > Len(get_by_hunt(findings, hunt_id[p])))
             => pc[p] = "cards2"]_vars

\* the sync phase saw two findings of a hunt whose scan returned after a card
\* had been tested
C32_Witness ==
    \E p \in Procs :
        /\ pc[p] = "validation"
        /\ syncSeen[p] = 2
        /\ scan[p] = "done"
        /\ Count(p, "card") >= 1

\* ------------------------------------------------ the first-wave cards
\* two hunts, on a.com and on b.com, have stored the cards of their discovery
\* phase, of any confidence and in any order, and are about to test them
CardInit ==
    /\ lock = [d \in Domains |-> TRUE]
    /\ holder = [d \in Domains |-> IF d = "a.com" THEN "w1" ELSE "w2"]
    /\ targets = [d \in Domains |->
                    [Target("recon_complete", 0, 0, DefaultPriority, 0, 0)
                        EXCEPT !.last_recon_at = IF d = "a.com" THEN 1 ELSE 2]]
    /\ hunts = [h \in 1..2 |->
                  [target |-> IF h = 1 THEN "a.com" ELSE "b.com",
                   hunt_type |-> "full", status |-> "running",
                   phase |-> "discovery_complete", error |-> None,
                   checkpoint |-> "discovery_complete", findings_count |-> 0]]
    /\ findings = <<>>
    /\ cards \in UNION {[1..n -> [hunt_id : 1..2, status : {"pending"},
                                  confidence : {"high", "medium", "low"}]] :
                           n \in 1..MaxCards}
    /\ patterns = <<>>
    /\ stats = [hunts_completed |-> 0, findings_total |-> 0]
    /\ pc = [p \in Procs |-> "testing"]
    /\ tgt = [p \in Procs |-> IF p = "w1" THEN "a.com" ELSE "b.com"]
    /\ hunt_id = [p \in Procs |-> IF p = "w1" THEN 1 ELSE 2]
    /\ cardsL = [p \in Procs |-> <<>>]
    /\ todo = [p \in Procs |-> <<>>]
    /\ all_findings = [p \in Procs |-> <<>>]
    /\ verified = [p \in Procs |-> <<>>]
    /\ verified_count = [p \in Procs |-> 0]
    /\ result = [p \in Procs |-> [status |-> None, error |-> None]]
    /\ scan = [p \in Procs |-> None]
    /\ calls = [p \in Procs |-> <<Call("recon", 0), Call("discovery", 0)>>]
    /\ syncSeen = [p \in Procs |-> -1]
    /\ outlived = [p \in Procs |-> FALSE]
    /\ lastVal = <<>>

\* the first wave of both hunts, a test recording no finding or raising
CardNext ==
    \E p \in Procs :
        \/ StartTesting(p)
        \/ \E n \in {-1, 0} : TestCard(p, n)

CardSpec == CardInit /\ [][CardNext]_vars

\* the cards an invocation has submitted to the exploitation collaborator,
\* in the order of the calls
Submitted(p) == SelectSeq(calls[p], LAMBDA c : c.what = "card")

\* C33: the cards a hunt submits in its first wave are cards of this hunt,
\* no card twice, never a card of a lower confidence tier before one of a
\* higher tier; and when the loop has run to its end every card of the hunt
\* has been submitted
C33_FirstWaveInOrder ==
    \A p \in Procs :
        /\ \A i, j \in DOMAIN Submitted(p) :
              i < j =>
                 /\ Submitted(p)[i].arg # Submitted(p)[j].arg
                 /\ confidence_rank(cards[Submitted(p)[i].arg].confidence)
                       <= confidence_rank(cards[Submitted(p)[j].arg].confidence)
        /\ \A i \in DOMAIN Submitted(p) :
              cards[Submitted(p)[i].arg].hunt_id = hunt_id[p]
        /\ (pc[p] = "cards" /\ cardsL[p] = <<>>)
           => \A c \in DOMAIN cards :
                 cards[c].hunt_id = hunt_id[p] =>
                     \E i \in DOMAIN Submitted(p) : Submitted(p)[i].arg = c

\* a hunt whose second card is of high confidence and whose first is not has
\* tested both, the second first
C33_Witness ==
    \E p \in Procs :
        /\ pc[p] = "cards" /\ cardsL[p] = <<>>
        /\ Len(Submitted(p)) = 2
        /\ Submitted(p)[1].arg > Submitted(p)[2].arg
        /\ cards[Submitted(p)[1].arg].confidence = "high"

\* C34: a full Hunt record with status running belongs to a run_hunt
\* invocation that is still executing and holds the lock of its target; once
\* the invocation has returned or raised its Hunt record is not running
C34_RunningMeansExecuting ==
    \A p \in Procs :
        (hunt_id[p] # 0 /\ hunts[hunt_id[p]].status = "running")
        => /\ pc[p] \in InHunt
           /\ is_target_locked(tgt[p])
           /\ holder[tgt[p]] = p

\* C35: the release at the end of a run_hunt invocation that deletes a lease
\* deletes the lease this invocation acquired, never the lease of another
\* invocation on the domain
C35_ReleasesOwnLease ==
    [][\A p \in Procs :
          (pc[p] = "finally" /\ pc'[p] = "done" /\ is_target_locked(tgt[p]))
          => holder[tgt[p]] = p]_vars

\* ------------------------------------------------ the recon entry point
\* API start_recon and CLI recon: the target is added if it is not
\* registered, a recon_only Hunt is created and run_recon is queued for it
StartRecon(d) ==
    /\ Len(hunts) <= MaxHunts
    /\ targets' = TargetDB_add(targets, d, DefaultPriority).table
    /\ hunts' = HuntDB_create(d, "recon_only")
    /\ UNCHANGED <<lockVars, findings, cards, patterns, stats, pc, locVars, result,
                   scan, calls, lastVal>>

\* the hunts whose run_recon task has returned
Finished == IF lastVal = <<>> THEN {} ELSE lastVal[1].finished

\* the task run_recon queued for Hunt h, run by a recon worker: the recon CLI
\* fails and the task returns the error (lines 28-32), or the data is stored,
\* the target stamped and the checkpoint written (lines 35-57)
ReconTask(h, out) ==
    /\ h \in DOMAIN hunts /\ h \notin Finished
    /\ hunts[h].hunt_type = "recon_only"
    /\ IF out = "ok"
       THEN /\ targets' = [targets EXCEPT ![hunts[h].target].last_recon_at = h,
                                          ![hunts[h].target].status = "recon_complete"]
            /\ hunts' = HuntDB_checkpoint(hunts, h, "recon_complete")
       ELSE UNCHANGED <<targets, hunts>>
    /\ lastVal' = <<[op |-> "recon", finished |-> Finished \cup {h}]>>
    /\ UNCHANGED <<lockVars, findings, cards, patterns, stats, pc, locVars, result,
                   scan, calls>>

ReconNext ==
    \/ \E d \in Domains : StartRecon(d)
    \/ \E h \in 1..(MaxHunts + 1), out \in {"ok", "error"} : ReconTask(h, out)

ReconSpec == RegistryInit /\ [][ReconNext]_vars

\* C36: a recon_only Hunt whose run_recon task has finished has a terminal
\* status, complete or failed, and so is not among the active hunts
C36_ReconHuntEnds ==
    \A h \in Finished : hunts[h].status \in {"complete", "failed"}

\* C37: no run_hunt invocation enters its pipeline (takes the lock and goes
\* on to create its Hunt record) for a target whose status is disabled
C37_NoHuntOnDisabled ==
    [][\A p \in Procs :
          (pc[p] = "start" /\ pc'[p] = "locked")
          => targets[tgt[p]].status # "disabled"]_vars

C39_NothingAfterTheEnd ==
    [][\A p \in Procs :
          (pc[p] = "done" /\ hunt_id[p] # 0)
          => /\ get_by_hunt(findings', hunt_id[p]) = get_by_hunt(findings, hunt_id[p])
             /\ targets'[tgt[p]] = targets[tgt[p]]]_vars
====
